---- MODULE Spec2Model ----
(***************************************************************************)
(* python-file-trace: the trace orchestrator (src/src/trace.ts) and the     *)
(* module resolver (src/src/resolver.ts) as a state machine.                *)
(*                                                                          *)
(* A path is the sequence of its components; an absolute path starts with   *)
(* the component "/".  A module name is the sequence moduleName.split('.')  *)
(* yields.  One step of the machine is one synchronous run of JavaScript    *)
(* between two awaits: every await of the source is a point where the       *)
(* other tasks may run.                                                     *)
(***************************************************************************)
EXTENDS Integers, Sequences, FiniteSets, Bags, TLC

None == "none"

\* ------------------------------------------------------------------ paths

Py(name) == name \o ".py"

InitPy == "__init__.py"

\* The base names the scenarios use; a component ends with ".py" iff it is
\* Py(n) for one of them.
BaseNames ==
  { "main", "utils", "helpers", "a", "b", "c", "d", "e", "x", "ghost",
    "plugin", "module_a", "module_b", "__init__", "os", "y", "z",
    "requests", "runner", "sub" }

EndsWithPy(name) == \E n \in BaseNames : name = Py(n)

isAbsolute(p) == Len(p) > 0 /\ p[1] = "/"

Last(s) == s[Len(s)]

Front(s) == SubSeq(s, 1, Len(s) - 1)

\* path.dirname: the root is its own parent
dirname(p) == IF Len(p) <= 1 THEN p ELSE Front(p)

\* path.join(dir, name) for a single component; an empty one adds nothing
join(dir, name) == IF name = "" THEN dir ELSE Append(dir, name)

\* path normalisation: "." is dropped, ".." removes the component before it
\* (the root stays)
RECURSIVE NormalizeFrom(_, _)
NormalizeFrom(done, rest) ==
  IF rest = << >> THEN done
  ELSE LET h == Head(rest) IN
       IF h = "." THEN NormalizeFrom(done, Tail(rest))
       ELSE IF h = ".."
            THEN NormalizeFrom(IF Len(done) > 1 THEN Front(done) ELSE done,
                               Tail(rest))
            ELSE NormalizeFrom(Append(done, h), Tail(rest))

\* path.resolve(cwd, p): an absolute p stands, a relative one is taken from cwd
resolveFrom(cwd, p) ==
  IF isAbsolute(p) THEN NormalizeFrom(<< >>, p) ELSE NormalizeFrom(cwd, p)

RECURSIVE CommonLen(_, _)
CommonLen(p, q) ==
  IF p = << >> \/ q = << >> \/ Head(p) # Head(q) THEN 0
  ELSE 1 + CommonLen(Tail(p), Tail(q))

\* path.relative(from, to) for normalised absolute paths
relative(from, to) ==
  LET k == CommonLen(from, to) IN
  [i \in 1..(Len(from) - k) |-> ".."] \o SubSeq(to, k + 1, Len(to))

IsPrefix(p, q) == Len(p) <= Len(q) /\ SubSeq(q, 1, Len(p)) = p

\* ------------------------------------------------------- import records

Imp(m) == [module |-> m]

From(m, l, ns) == [module |-> m, level |-> l, names |-> ns]

\* A dynamic record carries a literal module name, or (module absent) the
\* text of the expression
NoPath == << >>

Dyn(m) ==
  [module |-> m, expression |-> None, path |-> NoPath, package |-> << >>]

DynExpr(e) ==
  [module |-> << >>, expression |-> e, path |-> NoPath, package |-> << >>]

\* The record of runpy.run_path('<path>'): the literal path, and no module
DynPath(p) ==
  [module |-> << >>, expression |-> None, path |-> p, package |-> << >>]

\* The record of import_module('.m', package='pkg'): the module name as
\* written, dots included ('.m'.split('.') starts with an empty component
\* per dot), and the package
DynPkg(m, pkg) ==
  [module |-> m, expression |-> None, path |-> NoPath, package |-> pkg]

Parsed(is, fs, ds) == [imports |-> is, fromImports |-> fs, dynamicImports |-> ds]

NoImports == Parsed(<< >>, << >>, << >>)

\* ------------------------------------------------------------ scenarios
\* A scenario is a file system, the entry files and the environment of one
\* call of pythonFileTrace.  disk maps each file to its content; the content
\* is a label that parseImports turns into the import records of the file.

App == << "/", "app" >>

F(name) == App \o << Py(name) >>

\* What the structural parser returns for each file content
parseImports(content) ==
  CASE content = "simple_main" ->
         Parsed(<< Imp(<< "utils" >>), Imp(<< "os" >>) >>,
                << From(<< "helpers" >>, 0, << "h" >>) >>, << >>)
    [] content = "simple_helpers" -> Parsed(<< Imp(<< "x" >>) >>, << >>, << >>)
    [] content = "cycle_a" -> Parsed(<< Imp(<< "b" >>) >>, << >>, << >>)
    [] content = "cycle_b" -> Parsed(<< Imp(<< "a" >>) >>, << >>, << >>)
    [] content = "depth_e" ->
         Parsed(<< Imp(<< "a" >>), Imp(<< "b" >>) >>, << >>, << >>)
    [] content = "depth_a" -> Parsed(<< Imp(<< "b" >>) >>, << >>, << >>)
    [] content = "depth_b" -> Parsed(<< Imp(<< "c" >>) >>, << >>, << >>)
    [] content = "depth_c" -> Parsed(<< Imp(<< "d" >>) >>, << >>, << >>)
    [] content = "two_a" -> Parsed(<< Imp(<< "b" >>) >>, << >>, << >>)
    [] content = "two_b" -> Parsed(<< >>, << From(<< "c" >>, 0, << "*" >>) >>, << >>)
    [] content = "pkg_main" ->
         Parsed(<< >>,
                << From(<< "mypkg" >>, 0, << "module_a", "attr" >>) >>, << >>)
    [] content = "rel_a" -> Parsed(<< >>, << From(<< >>, 1, << "b" >>) >>, << >>)
    [] content = "rel_b" -> Parsed(<< >>, << From(<< "a" >>, 1, << "f" >>) >>, << >>)
    [] content = "bad_main" ->
         Parsed(<< Imp(<< "ghost" >>), Imp(<< "utils" >>), Imp(<< "missing" >>) >>,
                << From(<< "missing" >>, 0, << "y" >>) >>, << >>)
    [] content = "bad_utils" -> Parsed(<< Imp(<< "ghost" >>) >>, << >>, << >>)
    [] content = "bad_ghost" -> Parsed(<< Imp(<< "x" >>) >>, << >>, << >>)
    [] content = "dyn_main" ->
         Parsed(<< >>, << >>, << Dyn(<< "plugin" >>), DynExpr("name_var") >>)
    [] content = "dyn_plugin" -> Parsed(<< Imp(<< "x" >>) >>, << >>, << >>)
    [] content = "ns_main" ->
         Parsed(<< Imp(<< "ns" >>) >>, << From(<< "ns" >>, 0, << "x" >>) >>, << >>)
    [] content = "std_main" ->
         Parsed(<< Imp(<< "os" >>), Imp(<< "missing" >>) >>,
                << From(<< "os", "path" >>, 0, << "join" >>) >>,
                << Dyn(<< "os" >>) >>)
    [] content = "stdon_main" ->
         Parsed(<< Imp(<< "os" >>), Imp(<< "sys" >>), Imp(<< "missing" >>) >>,
                << >>, << >>)
    [] content = "site_main" -> Parsed(<< Imp(<< "requests" >>) >>, << >>, << >>)
    [] content = "dd_main" ->
         Parsed(<< Imp(<< "b" >>) >>, << >>, << Dyn(<< "a" >>) >>)
    [] content = "import_y" -> Parsed(<< Imp(<< "y" >>) >>, << >>, << >>)
    [] content = "import_z" -> Parsed(<< Imp(<< "z" >>) >>, << >>, << >>)
    [] content = "import_a" -> Parsed(<< Imp(<< "a" >>) >>, << >>, << >>)
    [] content = "import_b" -> Parsed(<< Imp(<< "b" >>) >>, << >>, << >>)
    [] content = "import_c" -> Parsed(<< Imp(<< "c" >>) >>, << >>, << >>)
    [] content = "import_a_b" ->
         Parsed(<< Imp(<< "a" >>), Imp(<< "b" >>) >>, << >>, << >>)
    [] content = "import_a_c" ->
         Parsed(<< Imp(<< "a" >>), Imp(<< "c" >>) >>, << >>, << >>)
    [] content = "import_b_c" ->
         Parsed(<< Imp(<< "b" >>), Imp(<< "c" >>) >>, << >>, << >>)
    [] content = "nsd_main" ->
         Parsed(<< Imp(<< "ns" >>), Imp(<< "ns", "x" >>) >>,
                << From(<< "pkg" >>, 0, << "sub" >>) >>,
                << Dyn(<< "ns" >>) >>)
    [] content = "rr_a" ->
         Parsed(<< >>,
                << From(<< "utils" >>, 1, << "f" >>),
                   From(<< "utils" >>, 2, << "g" >>),
                   From(<< "helpers" >>, 2, << "h" >>),
                   From(<< "requests" >>, 1, << "get" >>) >>, << >>)
    [] content = "runpy_main" ->
         Parsed(<< >>, << >>, << DynPath(<< Py("runner") >>) >>)
    [] content = "chain_main" ->
         Parsed(<< Imp(<< "a", "b", "c" >>) >>,
                << From(<< "a", "b", "c" >>, 0, << "f" >>) >>, << >>)
    [] content = "shadow_main" ->
         Parsed(<< Imp(<< "utils" >>), Imp(<< "d" >>) >>, << >>, << >>)
    [] content = "import_helpers" ->
         Parsed(<< Imp(<< "helpers" >>) >>, << >>, << >>)
    [] content = "import_x" -> Parsed(<< Imp(<< "x" >>) >>, << >>, << >>)
    [] content = "import_requests" ->
         Parsed(<< Imp(<< "requests" >>) >>, << >>, << >>)
    [] content = "import_os" -> Parsed(<< Imp(<< "os" >>) >>, << >>, << >>)
    [] content = "import_ghost" -> Parsed(<< Imp(<< "ghost" >>) >>, << >>, << >>)
    [] content = "dynpkg_main" ->
         Parsed(<< >>, << >>, << DynPkg(<< "", "sub" >>, << "pkg" >>) >>)
    [] content = "fb_main" ->
         Parsed(<< Imp(<< "utils" >>) >>, << >>,
                << Dyn(<< "plugin" >>), DynExpr("name_var") >>)
    [] OTHER -> NoImports

\* What the regex parser returns for the same content: the plain and from
\* imports of its lines, and of the dynamic imports those whose argument is a
\* string literal (it has no record for another argument)
parseImportsRegex(content) ==
  LET parsed == parseImports(content)
      literal(imp) == imp.module # << >>
  IN [parsed EXCEPT !.dynamicImports = SelectSeq(@, literal)]

ScenarioNames ==
  { "simple", "cycle", "depth", "two", "package", "relative", "bad",
    "dynamic", "namespace", "stdlib", "stdlibOn", "site", "dynamicDepth",
    "split", "noEntry", "fallback", "fan",
    "nsdeep", "relroots", "relns",
    "runpy", "chain", "dynpkg", "shadow" }

\* `**/<name>`, the one shape of glob pattern the scenarios use
GlobstarName(name) == [glob |-> "**/", name |-> name]

BaseScenario ==
  [ cwd |-> App, base |-> App, entries |-> << F("main") >>,
    disk |-> << >>, emptyDirs |-> {}, unreadable |-> {}, parserFails |-> {},
    ignoreChoices |-> { {} }, dynamicChoices |-> { TRUE },
    fileChoices |-> { "all" },
    modulePaths |-> << >>, sitePackages |-> << >>,
    stdlibPath |-> << "/", "lib" >>, stdlibModules |-> { "os" },
    includeStdlib |-> FALSE ]

Disk(pairs) == [p \in { pr[1] : pr \in pairs } |->
                  (CHOOSE pr \in pairs : pr[1] = p)[2]]

Scenario(name) ==
  CASE name = "simple" ->
         [BaseScenario EXCEPT
            !.disk = Disk({ << F("main"), "simple_main" >>,
                            << F("utils"), "leaf" >>,
                            << F("helpers"), "simple_helpers" >>,
                            << F("x"), "leaf" >> }),
            !.ignoreChoices = { {}, { GlobstarName(Py("helpers")) },
                                { GlobstarName(Py("main")) } }]
    [] name = "cycle" ->
         [BaseScenario EXCEPT
            !.entries = << F("a") >>,
            !.disk = Disk({ << F("a"), "cycle_a" >>, << F("b"), "cycle_b" >> })]
    [] name = "depth" ->
         [BaseScenario EXCEPT
            !.entries = << F("e") >>,
            !.disk = Disk({ << F("e"), "depth_e" >>, << F("a"), "depth_a" >>,
                            << F("b"), "depth_b" >>, << F("c"), "depth_c" >>,
                            << F("d"), "leaf" >> }),
            !.ignoreChoices = { {}, { GlobstarName(Py("a")) } }]
    [] name = "two" ->
         [BaseScenario EXCEPT
            !.cwd = App \o << "sub" >>,
            !.entries = << << "..", Py("a") >>, F("b"), << ".", "..", Py("a") >> >>,
            !.emptyDirs = { App \o << "sub" >> },
            !.disk = Disk({ << F("a"), "two_a" >>, << F("b"), "two_b" >>,
                            << F("c"), "leaf" >> }),
            !.ignoreChoices = { {}, { GlobstarName(Py("b")) } }]
    [] name = "package" ->
         [BaseScenario EXCEPT
            !.disk = Disk({ << F("main"), "pkg_main" >>,
                            << App \o << "mypkg", InitPy >>, "leaf" >>,
                            << App \o << "mypkg", Py("module_a") >>, "leaf" >>,
                            << App \o << "mypkg", Py("module_b") >>, "leaf" >> })]
    [] name = "relative" ->
         [BaseScenario EXCEPT
            !.entries = << App \o << "pkg", Py("a") >> >>,
            !.disk = Disk({ << App \o << "pkg", InitPy >>, "leaf" >>,
                            << App \o << "pkg", Py("a") >>, "rel_a" >>,
                            << App \o << "pkg", Py("b") >>, "rel_b" >> })]
    [] name = "bad" ->
         [BaseScenario EXCEPT
            !.disk = Disk({ << F("main"), "bad_main" >>,
                            << F("utils"), "bad_utils" >>,
                            << F("ghost"), "bad_ghost" >>,
                            << F("x"), "leaf" >> }),
            !.unreadable = { F("ghost") }]
    [] name = "dynamic" ->
         [BaseScenario EXCEPT
            !.disk = Disk({ << F("main"), "dyn_main" >>,
                            << F("plugin"), "dyn_plugin" >>,
                            << F("x"), "leaf" >> }),
            !.dynamicChoices = { TRUE, FALSE }]
    [] name = "namespace" ->
         [BaseScenario EXCEPT
            !.disk = Disk({ << F("main"), "ns_main" >>,
                            << App \o << "ns", Py("x") >>, "leaf" >> })]
    [] name = "stdlib" ->
         [BaseScenario EXCEPT
            !.disk = Disk({ << F("main"), "std_main" >>,
                            << F("os"), "import_a" >>,
                            << F("a"), "leaf" >>,
                            << << "/", "lib", Py("os") >>, "leaf" >> })]
    [] name = "stdlibOn" ->
         [BaseScenario EXCEPT
            !.disk = Disk({ << F("main"), "stdon_main" >>,
                            << << "/", "lib", Py("os") >>, "leaf" >> }),
            !.stdlibModules = { "os", "sys" },
            !.includeStdlib = TRUE]
    [] name = "site" ->
         [BaseScenario EXCEPT
            !.disk = Disk({ << F("main"), "site_main" >>,
                            << << "/", "lib", "site-packages", Py("requests") >>,
                               "leaf" >> }),
            !.sitePackages = << << "/", "lib", "site-packages" >> >>]
    [] name = "dynamicDepth" ->
         [BaseScenario EXCEPT
            !.disk = Disk({ << F("main"), "dd_main" >>, << F("a"), "depth_a" >>,
                            << F("b"), "depth_b" >>, << F("c"), "depth_c" >>,
                            << F("d"), "leaf" >> }),
            !.dynamicChoices = { TRUE, FALSE }]
    [] name = "split" ->
         [BaseScenario EXCEPT
            !.entries = << F("e"), F("x") >>,
            !.disk = Disk({ << F("e"), "import_c" >>, << F("c"), "depth_c" >>,
                            << F("d"), "import_z" >>, << F("z"), "leaf" >>,
                            << F("x"), "import_y" >>, << F("y"), "import_c" >> }),
            !.fileChoices = { "all", "first" }]
    [] name = "noEntry" ->
         [BaseScenario EXCEPT
            !.entries = << F("ghost"), F("main") >>,
            !.disk = Disk({ << F("main"), "import_a" >>, << F("a"), "leaf" >> })]
    [] name = "fallback" ->
         [BaseScenario EXCEPT
            !.disk = Disk({ << F("main"), "fb_main" >>,
                            << F("utils"), "leaf" >>,
                            << F("plugin"), "dyn_plugin" >>,
                            << F("x"), "leaf" >> }),
            !.parserFails = { F("main"), F("plugin") }]
    [] name = "nsdeep" ->
         [BaseScenario EXCEPT
            !.disk = Disk({ << F("main"), "nsd_main" >>,
                            << App \o << "ns", Py("x") >>, "leaf" >>,
                            << App \o << "ns", Py("y") >>, "leaf" >>,
                            << App \o << "pkg", InitPy >>, "leaf" >>,
                            << App \o << "pkg", "sub", Py("z") >>, "leaf" >> })]
    [] name = "relroots" ->
         [BaseScenario EXCEPT
            !.entries = << App \o << "pkg", "sub", Py("a") >> >>,
            !.modulePaths = << << "/", "extra" >> >>,
            !.sitePackages = << << "/", "lib", "site-packages" >> >>,
            !.disk = Disk({ << App \o << "pkg", "sub", Py("a") >>, "rr_a" >>,
                            << App \o << "pkg", Py("utils") >>, "leaf" >>,
                            << F("utils"), "leaf" >>,
                            << << "/", "extra", Py("utils") >>, "leaf" >>,
                            << << "/", "extra", Py("helpers") >>, "leaf" >>,
                            << << "/", "lib", "site-packages", Py("requests") >>,
                               "leaf" >> })]
    [] name = "relns" ->
         [BaseScenario EXCEPT
            !.entries = << App \o << "nopkg", Py("a") >> >>,
            !.disk = Disk({ << App \o << "nopkg", Py("a") >>, "rel_a" >>,
                            << App \o << "nopkg", Py("b") >>, "leaf" >> })]
    [] name = "runpy" ->
         [BaseScenario EXCEPT
            !.disk = Disk({ << F("main"), "runpy_main" >>,
                            << F("runner"), "leaf" >> })]
    [] name = "chain" ->
         [BaseScenario EXCEPT
            !.disk = Disk({ << F("main"), "chain_main" >>,
                            << App \o << "a", InitPy >>, "leaf" >>,
                            << App \o << "a", "b", InitPy >>, "leaf" >>,
                            << App \o << "a", "b", Py("c") >>, "leaf" >> })]
    [] name = "dynpkg" ->
         [BaseScenario EXCEPT
            !.disk = Disk({ << F("main"), "dynpkg_main" >>,
                            << F("sub"), "leaf" >>,
                            << App \o << "pkg", InitPy >>, "leaf" >>,
                            << App \o << "pkg", Py("sub") >>, "leaf" >> })]
    [] name = "shadow" ->
         [BaseScenario EXCEPT
            !.entries = << App \o << "sub", Py("main") >> >>,
            !.modulePaths = << << "/", "extra" >> >>,
            !.sitePackages = << << "/", "lib", "site-packages" >> >>,
            !.includeStdlib = TRUE,
            !.disk = Disk({ << App \o << "sub", Py("main") >>, "shadow_main" >>,
                            << App \o << "sub", Py("utils") >>,
                               "import_helpers" >>,
                            << F("utils"), "leaf" >>,
                            << F("helpers"), "import_x" >>,
                            << << "/", "extra", Py("helpers") >>, "leaf" >>,
                            << << "/", "extra", Py("x") >>, "import_requests" >>,
                            << << "/", "lib", "site-packages", Py("x") >>, "leaf" >>,
                            << << "/", "lib", "site-packages", Py("requests") >>,
                               "import_os" >>,
                            << << "/", "lib", Py("requests") >>, "leaf" >>,
                            << << "/", "lib", Py("os") >>, "import_ghost" >>,
                            << App \o << "sub", "d", Py("y") >>, "leaf" >>,
                            << F("d"), "leaf" >> })]
    [] name = "fan" ->
         [BaseScenario EXCEPT
            !.entries = << F("a"), F("b"), F("c") >>,
            !.disk = Disk({ << F("a"), "leaf" >>, << F("b"), "leaf" >>,
                            << F("c"), "leaf" >> })]

\* The import graphs over the three files a.py, b.py and c.py of one
\* directory: graph[n] is the content of Py(n), which imports any of the
\* other two.  The entry file is a.py.
GraphFiles == { "a", "b", "c" }

GraphContents(n) ==
  IF n = "a" THEN { "leaf", "import_b", "import_c", "import_b_c" }
  ELSE IF n = "b" THEN { "leaf", "import_a", "import_c", "import_a_c" }
  ELSE { "leaf", "import_a", "import_b", "import_a_b" }

Graphs == { g \in [GraphFiles -> UNION { GraphContents(n) : n \in GraphFiles }] :
              \A n \in GraphFiles : g[n] \in GraphContents(n) }

NoGraph == [n \in GraphFiles |-> "leaf"]

GraphScenario(graph) ==
  [BaseScenario EXCEPT
     !.entries = << F("a") >>,
     !.disk = Disk({ << F(n), graph[n] >> : n \in GraphFiles })]

\* ------------------------------------------------------------ file system

FilesOf(sc) == DOMAIN sc.disk

RECURSIVE Prefixes(_)
Prefixes(p) == IF Len(p) <= 1 THEN { p } ELSE { p } \cup Prefixes(Front(p))

DirsOf(sc) ==
  UNION { Prefixes(Front(f)) : f \in FilesOf(sc) }
    \cup UNION { Prefixes(d) : d \in sc.emptyDirs }

\* fs.readdir(dir): the names of the children of dir
readdir(sc, dir) ==
  { p[Len(dir) + 1] : p \in { q \in FilesOf(sc) \cup DirsOf(sc) :
                                 Len(q) = Len(dir) + 1 /\ IsPrefix(dir, q) } }

\* --------------------------------------------------------------- resolver

ResolveResult(path, isPkg, isNs) ==
  [path |-> path, isPackage |-> isPkg, isNamespacePackage |-> isNs]

\* The resolver's null: no real result has an empty path
Null == ResolveResult(<< >>, FALSE, FALSE)

\* An absent moduleName (undefined, or the empty string)
NoModule == << >>

\* addFile's parent null
NoParent == << >>

\* statPath(...)?.isFile and statPath(...)?.isDirectory
IsFile(sc, p) == p \in FilesOf(sc)

IsDirectory(sc, p) == p \in DirsOf(sc) /\ p \notin FilesOf(sc)

searchPaths(sc) ==
  << sc.base >> \o sc.modulePaths \o sc.sitePackages
    \o (IF sc.includeStdlib /\ sc.stdlibPath # << >>
        THEN << sc.stdlibPath >> ELSE << >>)

isNamespacePackage(sc, dirPath) ==
  /\ IsDirectory(sc, dirPath)
  /\ ~IsFile(sc, join(dirPath, InitPy))
  /\ \E entry \in readdir(sc, dirPath) :
       \/ IsFile(sc, join(dirPath, entry)) /\ EndsWithPy(entry)
       \/ IsDirectory(sc, join(dirPath, entry))

isStdlibModule(sc, moduleName) == moduleName[1] \in sc.stdlibModules

RECURSIVE resolveInPathFrom(_, _, _, _)
resolveInPathFrom(sc, parts, i, currentPath) ==
  IF i > Len(parts) THEN Null
  ELSE LET part == parts[i]
           isLast == i = Len(parts)
           modulePath == join(currentPath, Py(part))
           packagePath == join(currentPath, part)
           initPath == join(packagePath, InitPy)
       IN IF IsFile(sc, modulePath) /\ isLast
          THEN ResolveResult(modulePath, FALSE, FALSE)
          ELSE IF IsDirectory(sc, packagePath)
               THEN IF isLast /\ IsFile(sc, initPath)
                    THEN ResolveResult(initPath, TRUE, FALSE)
                    ELSE IF isLast /\ isNamespacePackage(sc, packagePath)
                         THEN ResolveResult(packagePath, TRUE, TRUE)
                         ELSE resolveInPathFrom(sc, parts, i + 1, packagePath)
               ELSE Null

resolveInPath(sc, parts, basePath) == resolveInPathFrom(sc, parts, 1, basePath)

RECURSIVE FirstResolved(_, _, _)
FirstResolved(sc, parts, paths) ==
  IF paths = << >> THEN Null
  ELSE LET result == resolveInPath(sc, parts, Head(paths)) IN
       IF result # Null THEN result ELSE FirstResolved(sc, parts, Tail(paths))

\* resolveModule that probes the file system for a stdlib name too
resolveModule_alwaysProbe(sc, moduleName, fromFile) ==
  FirstResolved(sc, moduleName, << dirname(fromFile) >> \o searchPaths(sc))

\* resolveModule that tries the directory of the importing file last
resolveModule_ownDirLast(sc, moduleName, fromFile) ==
  IF ~sc.includeStdlib /\ isStdlibModule(sc, moduleName) THEN Null
  ELSE FirstResolved(sc, moduleName, searchPaths(sc) \o << dirname(fromFile) >>)

resolveModule(sc, moduleName, fromFile) ==
  IF ~sc.includeStdlib /\ isStdlibModule(sc, moduleName) THEN Null
  ELSE FirstResolved(sc, moduleName, << dirname(fromFile) >> \o searchPaths(sc))

RECURSIVE Climb(_, _)
Climb(p, n) == IF n <= 0 THEN p ELSE Climb(dirname(p), n - 1)

\* resolveRelativeImport that goes on to the search paths when the derived
\* directory has no such module
resolveRelativeImport_thenRoots(sc, moduleName, level, fromFile) ==
  LET basePath == Climb(dirname(fromFile), level - 1)
      initPath == join(basePath, InitPy)
  IN IF moduleName = << >>
     THEN IF IsFile(sc, initPath) THEN ResolveResult(initPath, TRUE, FALSE)
          ELSE Null
     ELSE FirstResolved(sc, moduleName, << basePath >> \o searchPaths(sc))

resolveRelativeImport(sc, moduleName, level, fromFile) ==
  LET basePath == Climb(dirname(fromFile), level - 1)
      initPath == join(basePath, InitPy)
  IN IF moduleName = << >>
     THEN IF IsFile(sc, initPath) THEN ResolveResult(initPath, TRUE, FALSE)
          ELSE Null
     ELSE resolveInPath(sc, moduleName, basePath)

resolveImportedName(sc, modulePath, name, isPackageImport) ==
  IF ~isPackageImport THEN Null
  ELSE LET packageDir == dirname(modulePath)
           submodulePath == join(packageDir, Py(name))
           subpackagePath == join(packageDir, name)
           initPath == join(subpackagePath, InitPy)
       IN IF IsFile(sc, submodulePath)
          THEN ResolveResult(submodulePath, FALSE, FALSE)
          ELSE IF IsDirectory(sc, subpackagePath) /\ IsFile(sc, initPath)
               THEN ResolveResult(initPath, TRUE, FALSE)
               ELSE IF IsDirectory(sc, subpackagePath)
                       /\ isNamespacePackage(sc, subpackagePath)
                    THEN ResolveResult(subpackagePath, TRUE, TRUE)
                    ELSE Null

\* ------------------------------------------------------------------ state

MaxDepthOption == 2       \* the maxDepth options tried are 0..MaxDepthOption
MaxConcurrency == 2       \* fileIOConcurrency is tried in 1..MaxConcurrency
DefaultMaxDepth == 100

VARIABLES
  cfg,       \* the call: the scenario (its name and its file system and
             \* environment) and the options
  phase,     \* "init", "running", "returned": where pythonFileTrace stands
  ctx,       \* the TraceContext: fileList, reasons, warnings, unresolved,
             \* pending, traced, semaphore
  cache,     \* the TraceCache: fileContents, parsedImports
  ftask,     \* the running traceFile calls, by normalised path
  itask,     \* the running import tasks (the async closures of traceFile)
  rootWait,  \* the entry calls pythonFileTrace still awaits
  hist,      \* history of the call: the file reads started and the getImports
             \* calls, per path; the paths traceFile was called for while
             \* they were pending
  run,       \* 1 in the first call of pythonFileTrace, 2 in the second
  prev       \* the result the first call returned, once a second has begun

vars == << cfg, phase, ctx, cache, ftask, itask, rootWait, hist, run, prev >>

SC == [n \in ScenarioNames |-> Scenario(n)]

\* The files argument of the call: all entry files of the scenario, the
\* first of them alone, or the others
FilesGiven(entries, files) ==
  IF files = "first" THEN << Head(entries) >>
  ELSE IF files = "rest" THEN Tail(entries)
  ELSE entries

\* The file system and environment of the call, with the files it is given
World == [cfg.world EXCEPT !.entries = FilesGiven(@, cfg.files)]

EmptyFn == << >>

\* fileIOConcurrency when the option is not given
DefaultFileIOConcurrency == 1024

\* The semaphore that takes the default limit when it is given the limit 0
Semaphore_defaultOnZero(max) ==
  [current |-> 0, queue |-> << >>,
   max |-> IF max = 0 THEN DefaultFileIOConcurrency ELSE max]

Semaphore(max) == [current |-> 0, queue |-> << >>, max |-> max]

NewContext ==
  [ fileList |-> {}, reasons |-> EmptyFn, warnings |-> EmptyBag,
    unresolved |-> EmptyBag, pending |-> {}, traced |-> {},
    semaphore |-> Semaphore(cfg.fileIOConcurrency) ]

createCache == [fileContents |-> EmptyFn, parsedImports |-> EmptyFn]

NoHistory == [reads |-> EmptyBag, parsed |-> EmptyBag, reentered |-> {}]

\* What pythonFileTrace returns (warnings aside), the options it was called
\* with, and whether the call that follows is given the cache of this one
Result(c, cached) ==
  [ fileList |-> c.fileList, reasons |-> c.reasons,
    unresolved |-> c.unresolved, cached |-> cached, options |-> cfg ]

NoResult ==
  [ fileList |-> {}, reasons |-> EmptyFn, unresolved |-> EmptyBag,
    cached |-> FALSE ]

\* The mutable state a synchronous run of code works on
St ==
  [ ctx |-> ctx, cache |-> cache, ftask |-> ftask, itask |-> itask,
    rootWait |-> rootWait, hist |-> hist ]

Commit(st) ==
  /\ ctx' = st.ctx
  /\ cache' = st.cache
  /\ ftask' = st.ftask
  /\ itask' = st.itask
  /\ rootWait' = st.rootWait
  /\ hist' = st.hist

Put(f, k, v) == [x \in DOMAIN f \cup { k } |-> IF x = k THEN v ELSE f[x]]

Drop(f, ks) == [x \in DOMAIN f \ ks |-> f[x]]

AddOne(bag, e) == bag (+) SetToBag({ e })

resolve(path) == resolveFrom(World.cwd, path)

\* --------------------------------------------------- trace.ts: the helpers

\* minimatch(path, pattern) for a pattern `**/<name>`: the last component is
\* <name>, and the globstar matches no "." or ".." component before it
minimatch(path, pattern) ==
  /\ path # << >>
  /\ Last(path) = pattern.name
  /\ \A i \in 1..(Len(path) - 1) : path[i] \notin { ".", ".." }

shouldIgnore(path) ==
  LET relativePath == relative(World.base, path) IN
  \E pattern \in cfg.ignore :
     minimatch(relativePath, pattern) \/ minimatch(path, pattern)

\* addFile that records no parent when it creates the reason
addFile_noFirstParent(st, path, type, parent, moduleName) ==
  LET normalizedPath == resolve(path)
      c == st.ctx
  IN IF normalizedPath \notin c.fileList
     THEN [st EXCEPT
             !.ctx.fileList = c.fileList \cup { normalizedPath },
             !.ctx.reasons =
                Put(c.reasons, normalizedPath,
                    [ type |-> type, parents |-> {}, moduleName |-> moduleName,
                      ignored |-> shouldIgnore(normalizedPath) ])]
     ELSE IF parent # NoParent
          THEN [st EXCEPT !.ctx.reasons[normalizedPath].parents = @ \cup { parent }]
          ELSE st

\* addFile that leaves a file it already knows untouched
addFile_noParentOnRepeat(st, path, type, parent, moduleName) ==
  LET normalizedPath == resolve(path)
      c == st.ctx
  IN IF normalizedPath \notin c.fileList
     THEN [st EXCEPT
             !.ctx.fileList = c.fileList \cup { normalizedPath },
             !.ctx.reasons =
                Put(c.reasons, normalizedPath,
                    [ type |-> type,
                      parents |-> IF parent # NoParent THEN { parent } ELSE {},
                      moduleName |-> moduleName,
                      ignored |-> shouldIgnore(normalizedPath) ])]
     ELSE st

\* addFile that never sets the ignored flag
addFile_notIgnored(st, path, type, parent, moduleName) ==
  LET normalizedPath == resolve(path)
      c == st.ctx
  IN IF normalizedPath \notin c.fileList
     THEN [st EXCEPT
             !.ctx.fileList = c.fileList \cup { normalizedPath },
             !.ctx.reasons =
                Put(c.reasons, normalizedPath,
                    [ type |-> type,
                      parents |-> IF parent # NoParent THEN { parent } ELSE {},
                      moduleName |-> moduleName, ignored |-> FALSE ])]
     ELSE IF parent # NoParent
          THEN [st EXCEPT !.ctx.reasons[normalizedPath].parents = @ \cup { parent }]
          ELSE st

\* addFile that gives no parent to a file recorded as input
addFile_inputWithoutParents(st, path, type, parent, moduleName) ==
  LET normalizedPath == resolve(path)
      c == st.ctx
  IN IF normalizedPath \notin c.fileList
     THEN [st EXCEPT
             !.ctx.fileList = c.fileList \cup { normalizedPath },
             !.ctx.reasons =
                Put(c.reasons, normalizedPath,
                    [ type |-> type,
                      parents |-> IF parent # NoParent THEN { parent } ELSE {},
                      moduleName |-> moduleName,
                      ignored |-> shouldIgnore(normalizedPath) ])]
     ELSE IF parent # NoParent /\ c.reasons[normalizedPath].type # "input"
          THEN [st EXCEPT !.ctx.reasons[normalizedPath].parents = @ \cup { parent }]
          ELSE st

\* addFile that overwrites the type and the module name on a repeat
addFile_retype(st, path, type, parent, moduleName) ==
  LET normalizedPath == resolve(path)
      c == st.ctx
  IN IF normalizedPath \notin c.fileList
     THEN [st EXCEPT
             !.ctx.fileList = c.fileList \cup { normalizedPath },
             !.ctx.reasons =
                Put(c.reasons, normalizedPath,
                    [ type |-> type,
                      parents |-> IF parent # NoParent THEN { parent } ELSE {},
                      moduleName |-> moduleName,
                      ignored |-> shouldIgnore(normalizedPath) ])]
     ELSE IF parent # NoParent
          THEN [st EXCEPT !.ctx.reasons[normalizedPath] =
                            [@ EXCEPT !.type = type, !.moduleName = moduleName,
                                      !.parents = @ \cup { parent }]]
          ELSE st

addFile(st, path, type, parent, moduleName) ==
  LET normalizedPath == resolve(path)
      c == st.ctx
  IN IF normalizedPath \notin c.fileList
     THEN [st EXCEPT
             !.ctx.fileList = c.fileList \cup { normalizedPath },
             !.ctx.reasons =
                Put(c.reasons, normalizedPath,
                    [ type |-> type,
                      parents |-> IF parent # NoParent THEN { parent } ELSE {},
                      moduleName |-> moduleName,
                      ignored |-> shouldIgnore(normalizedPath) ])]
     ELSE IF parent # NoParent
          THEN [st EXCEPT !.ctx.reasons[normalizedPath].parents = @ \cup { parent }]
          ELSE st

addUnresolved(st, moduleName, fromFile) ==
  [st EXCEPT !.ctx.unresolved = AddOne(@, << moduleName, fromFile >>)]

Warn(st, w) == [st EXCEPT !.ctx.warnings = AddOne(@, w)]

MaxDepthWarning(path) == [kind |-> "Max depth exceeded", file |-> path]

ReadWarning(path) == [kind |-> "Failed to read", file |-> path]

RegexWarning(path) == [kind |-> "Using regex parser", file |-> path]

DynamicWarning(path, expr) ==
  [kind |-> "Dynamic import with non-static expression", file |-> path,
   expression |-> expr]

\* acquire that takes a slot whether or not one is free
acquire_noLimit(st, path, depth, awaiter) ==
  [st EXCEPT
     !.ctx.semaphore.current = st.ctx.semaphore.current + 1,
     !.ftask = Put(@, path, [pc |-> "acquired", depth |-> depth,
                             awaiter |-> awaiter, ok |-> TRUE])]

\* Semaphore.acquire, called for the read of path: the slot is taken at once
\* when one is free, else the call is queued
acquire(st, path, depth, awaiter) ==
  LET sem == st.ctx.semaphore IN
  IF sem.current < sem.max
  THEN [st EXCEPT
          !.ctx.semaphore.current = sem.current + 1,
          !.ftask = Put(@, path, [pc |-> "acquired", depth |-> depth,
                                  awaiter |-> awaiter, ok |-> TRUE])]
  ELSE [st EXCEPT
          !.ctx.semaphore.queue = Append(sem.queue, path),
          !.ftask = Put(@, path, [pc |-> "queued", depth |-> depth,
                                  awaiter |-> awaiter, ok |-> TRUE])]

\* release that frees the slot and wakes no queued call
release_noHandoff(st) ==
  [st EXCEPT !.ctx.semaphore.current = st.ctx.semaphore.current - 1]

\* Semaphore.release: the slot goes to the first queued call, if any
release(st) ==
  LET sem == st.ctx.semaphore IN
  IF sem.queue = << >>
  THEN [st EXCEPT !.ctx.semaphore.current = sem.current - 1]
  ELSE [st EXCEPT
          !.ctx.semaphore.queue = Tail(sem.queue),
          !.ftask[Head(sem.queue)].pc = "acquired"]

\* traceFile that checks the ignore patterns before it records an input file
traceFile_ignoreFirst(st, path, depth, isInput, awaiter) ==
  LET normalizedPath == resolve(path) IN
  IF depth > cfg.maxDepth
  THEN [st |-> Warn(st, MaxDepthWarning(normalizedPath)), started |-> FALSE]
  ELSE IF normalizedPath \in st.ctx.pending \/ normalizedPath \in st.ctx.traced
  THEN [st |-> st, started |-> FALSE]
  ELSE IF shouldIgnore(normalizedPath)
  THEN [st |-> st, started |-> FALSE]
  ELSE LET st1 == [st EXCEPT !.ctx.pending = @ \cup { normalizedPath }]
           st2 == IF isInput
                  THEN addFile(st1, normalizedPath, "input", NoParent, NoModule)
                  ELSE st1
       IN [st |-> acquire(st2, normalizedPath, depth, awaiter), started |-> TRUE]

\* traceFile without the check of the ignore patterns
traceFile_noIgnoreCheck(st, path, depth, isInput, awaiter) ==
  LET normalizedPath == resolve(path) IN
  IF depth > cfg.maxDepth
  THEN [st |-> Warn(st, MaxDepthWarning(normalizedPath)), started |-> FALSE]
  ELSE IF normalizedPath \in st.ctx.pending \/ normalizedPath \in st.ctx.traced
  THEN [st |-> st, started |-> FALSE]
  ELSE LET st1 == [st EXCEPT !.ctx.pending = @ \cup { normalizedPath }]
           st2 == IF isInput
                  THEN addFile(st1, normalizedPath, "input", NoParent, NoModule)
                  ELSE st1
       IN [st |-> acquire(st2, normalizedPath, depth, awaiter), started |-> TRUE]

\* traceFile that warns about the depth and goes on
traceFile_warnOnly(st, path, depth, isInput, awaiter) ==
  LET normalizedPath == resolve(path)
      st0 == IF depth > cfg.maxDepth
             THEN Warn(st, MaxDepthWarning(normalizedPath)) ELSE st
  IN
  IF normalizedPath \in st0.ctx.pending
  THEN [st |-> [st0 EXCEPT !.hist.reentered = @ \cup { normalizedPath }],
        started |-> FALSE]
  ELSE IF normalizedPath \in st0.ctx.traced
  THEN [st |-> st0, started |-> FALSE]
  ELSE LET st1 == [st0 EXCEPT !.ctx.pending = @ \cup { normalizedPath }]
           st2 == IF isInput
                  THEN addFile(st1, normalizedPath, "input", NoParent, NoModule)
                  ELSE st1
       IN IF shouldIgnore(normalizedPath)
          THEN [st |-> [st2 EXCEPT !.ctx.pending = @ \ { normalizedPath }],
                started |-> FALSE]
          ELSE [st |-> acquire(st2, normalizedPath, depth, awaiter),
                started |-> TRUE]

\* traceFile that does not skip a file that is already traced
traceFile_noTracedCheck(st, path, depth, isInput, awaiter) ==
  LET normalizedPath == resolve(path) IN
  IF depth > cfg.maxDepth
  THEN [st |-> Warn(st, MaxDepthWarning(normalizedPath)), started |-> FALSE]
  ELSE IF normalizedPath \in st.ctx.pending
  THEN [st |-> [st EXCEPT !.hist.reentered = @ \cup { normalizedPath }],
        started |-> FALSE]
  ELSE LET st1 == [st EXCEPT !.ctx.pending = @ \cup { normalizedPath }]
           st2 == IF isInput
                  THEN addFile(st1, normalizedPath, "input", NoParent, NoModule)
                  ELSE st1
       IN IF shouldIgnore(normalizedPath)
          THEN [st |-> [st2 EXCEPT !.ctx.pending = @ \ { normalizedPath }],
                started |-> FALSE]
          ELSE [st |-> acquire(st2, normalizedPath, depth, awaiter),
                started |-> TRUE]

\* traceFile from its call to its first await (or its early return).
\* started tells whether the call now awaits the read of the file.
traceFile(st, path, depth, isInput, awaiter) ==
  LET normalizedPath == resolve(path) IN
  IF depth > cfg.maxDepth
  THEN [st |-> Warn(st, MaxDepthWarning(normalizedPath)), started |-> FALSE]
  ELSE IF normalizedPath \in st.ctx.pending
  THEN [st |-> [st EXCEPT !.hist.reentered = @ \cup { normalizedPath }],
        started |-> FALSE]
  ELSE IF normalizedPath \in st.ctx.traced
  THEN [st |-> st, started |-> FALSE]
  ELSE LET st1 == [st EXCEPT !.ctx.pending = @ \cup { normalizedPath }]
           st2 == IF isInput
                  THEN addFile(st1, normalizedPath, "input", NoParent, NoModule)
                  ELSE st1
       IN IF shouldIgnore(normalizedPath)
          THEN [st |-> [st2 EXCEPT !.ctx.pending = @ \ { normalizedPath }],
                started |-> FALSE]
          ELSE [st |-> acquire(st2, normalizedPath, depth, awaiter),
                started |-> TRUE]

\* The promise of the traceFile call for path settles: its awaiter goes on
settle(st, path) ==
  LET awaiter == st.ftask[path].awaiter
      st1 == [st EXCEPT !.ftask = Drop(@, { path })]
  IN IF awaiter = "root"
     THEN [st1 EXCEPT !.rootWait = @ \ { path }]
     ELSE [st1 EXCEPT !.itask[awaiter].pc = "resume"]

\* ------------------------------------------- trace.ts: the import tasks
\* An import task is one async closure of traceFile: id = << file, group, i >>
\* is the i-th record of the group ("import", "from", "dynamic") of file.

ImportsOf(file) == cache.parsedImports[file]

Record(id) ==
  LET imports == ImportsOf(id[1]) IN
  IF id[2] = "import" THEN imports.imports[id[3]]
  ELSE IF id[2] = "from" THEN imports.fromImports[id[3]]
  ELSE imports.dynamicImports[id[3]]

Dots(level) == [i \in 1..level |-> ""]

\* imp.module || '.'
ModuleOrDot(module) == IF module = << >> THEN << "", "" >> ELSE module

\* '.'.repeat(imp.level) + (imp.module || '')
DottedName(level, module) ==
  Dots(level) \o (IF module = << >> THEN << "" >> ELSE module)

Finish(st, id) == [st EXCEPT !.itask[id].pc = "done"]

\* await traceFile(path, depth + 1, ctx) in the task id
AwaitTrace(st, id, path) ==
  LET r == traceFile(st, path, st.ftask[id[1]].depth + 1, FALSE, id) IN
  [r.st EXCEPT !.itask[id].pc = IF r.started THEN "awaitTrace" ELSE "resume"]

\* The closure calls traceFile for a namespace package too
Include_traceNamespace(st, id, resolved, type, moduleName) ==
  LET st1 == addFile(st, resolved.path, type, id[1], moduleName) IN
  [st |-> AwaitTrace(st1, id, resolved.path), awaited |-> TRUE]

\* addFile of a resolution result, then traceFile unless it is a namespace
\* package; awaited tells whether the task now awaits that traceFile call
Include(st, id, resolved, type, moduleName) ==
  LET st1 == addFile(st, resolved.path, type, id[1], moduleName) IN
  IF ~resolved.isNamespacePackage
  THEN [st |-> AwaitTrace(st1, id, resolved.path), awaited |-> TRUE]
  ELSE [st |-> st1, awaited |-> FALSE]

\* The loop over imp.names from index k: the next name that is not '*' is
\* resolved (an await), and without one the task ends
NextName(st, id, k) ==
  LET names == Record(id).names
      rest == { j \in k..Len(names) : names[j] # "*" }
  IN IF rest = {} THEN Finish(st, id)
     ELSE [st EXCEPT !.itask[id].pc = "resolveName",
                     !.itask[id].name = CHOOSE j \in rest : \A l \in rest : j <= l]

\* `import x` and a literal dynamic import, after the await of resolveModule
AfterModule(st, id, type) ==
  LET imp == Record(id)
      file == id[1]
      resolved == resolveModule(World, imp.module, file)
      r == Include(st, id, resolved, type, imp.module)
  IN IF resolved # Null
     THEN IF r.awaited THEN r.st ELSE Finish(r.st, id)
     ELSE IF ~isStdlibModule(World, imp.module)
          THEN Finish(addUnresolved(st, imp.module, file), id)
          ELSE Finish(st, id)

\* `from x import ...`, after the await of the resolver
AfterFrom(st, id) ==
  LET imp == Record(id)
      file == id[1]
  IN IF imp.level > 0
     THEN LET resolved ==
                resolveRelativeImport(World, imp.module, imp.level, file)
              r == Include([st EXCEPT !.itask[id].res = resolved], id, resolved,
                           "relative", ModuleOrDot(imp.module))
          IN
          IF resolved # Null
          THEN IF r.awaited THEN r.st ELSE NextName(r.st, id, 1)
          ELSE Finish(addUnresolved(st, DottedName(imp.level, imp.module), file),
                      id)
     ELSE LET resolved == resolveModule(World, imp.module, file)
              r == Include([st EXCEPT !.itask[id].res = resolved], id, resolved,
                           "from", imp.module)
          IN
          IF resolved # Null
          THEN IF r.awaited THEN r.st ELSE NextName(r.st, id, 1)
          ELSE IF ~isStdlibModule(World, imp.module)
               THEN Finish(addUnresolved(st, imp.module, file), id)
               ELSE Finish(st, id)

\* The imported name is never taken for a submodule
AfterName_noPromotion(st, id) ==
  NextName([st EXCEPT !.itask[id].name = st.itask[id].name + 1], id,
           st.itask[id].name + 1)

\* An imported name, after the await of resolveImportedName
AfterName(st, id) ==
  LET imp == Record(id)
      t == st.itask[id]
      name == imp.names[t.name]
      submodule ==
        resolveImportedName(World, t.res.path, name, t.res.isPackage)
      st1 == [st EXCEPT !.itask[id].name = t.name + 1]
      r == Include(st1, id, submodule, "from",
                   ModuleOrDot(imp.module) \o << name >>)
  IN IF submodule # Null
     THEN IF r.awaited THEN r.st ELSE NextName(r.st, id, t.name + 1)
     ELSE NextName(st1, id, t.name + 1)

\* After `await traceFile(...)` in the task id
AfterTrace(st, id) ==
  IF id[2] = "from" THEN NextName(st, id, st.itask[id].name)
  ELSE Finish(st, id)

NewTask == [pc |-> "resolve", name |-> 1, res |-> Null]

\* The closures traceFile starts for the records of a parsed file; each runs
\* to its first await, the call of the resolver.  A from-import at level 0
\* with an empty module name does nothing at all.
TasksOf(file, imports) ==
  LET plain == { << file, "import", i >> : i \in DOMAIN imports.imports }
      from == { << file, "from", i >> : i \in DOMAIN imports.fromImports }
      dyn == IF cfg.analyzeDynamic
             THEN { << file, "dynamic", i >> :
                      i \in { j \in DOMAIN imports.dynamicImports :
                                imports.dynamicImports[j].module # NoModule } }
             ELSE {}
      idle == { id \in from : imports.fromImports[id[3]].level = 0
                              /\ imports.fromImports[id[3]].module = << >> }
  IN [id \in plain \cup from \cup dyn |->
        IF id \in idle THEN [NewTask EXCEPT !.pc = "done"] ELSE NewTask]

\* traceFile that says nothing about a dynamic import it cannot follow
DynamicWarnings_none(file, imports) == EmptyBag

DynamicWarnings(file, imports) ==
  IF ~cfg.analyzeDynamic THEN EmptyBag
  ELSE LET idx == { j \in DOMAIN imports.dynamicImports :
                      /\ imports.dynamicImports[j].module = NoModule
                      /\ imports.dynamicImports[j].expression # None }
       IN [w \in { DynamicWarning(file, imports.dynamicImports[j].expression) :
                     j \in idx } |->
             Cardinality({ j \in idx :
               DynamicWarning(file, imports.dynamicImports[j].expression) = w })]

\* ------------------------------------------------------------- the steps

Options ==
  [ maxDepth : (0..MaxDepthOption) \cup { DefaultMaxDepth },
    fileIOConcurrency : 1..MaxConcurrency ]

\* The calls tried: each scenario with each of its option choices, and every
\* import graph over three files
Configs ==
  { [ scn |-> n, graph |-> NoGraph, maxDepth |-> o.maxDepth,
      fileIOConcurrency |-> o.fileIOConcurrency, ignore |-> ig,
      analyzeDynamic |-> dy, files |-> fl, world |-> SC[n] ] :
      n \in ScenarioNames, o \in Options,
      ig \in UNION { SC[m].ignoreChoices : m \in ScenarioNames }, dy \in BOOLEAN,
      fl \in UNION { SC[m].fileChoices : m \in ScenarioNames } }

GraphConfigs ==
  { [ scn |-> "graph", graph |-> g, maxDepth |-> o.maxDepth,
      fileIOConcurrency |-> o.fileIOConcurrency, ignore |-> {},
      analyzeDynamic |-> TRUE, files |-> "all", world |-> GraphScenario(g) ] :
      g \in Graphs, o \in Options }

Init ==
  /\ cfg \in { c \in Configs : /\ c.ignore \in SC[c.scn].ignoreChoices
                               /\ c.analyzeDynamic \in SC[c.scn].dynamicChoices
                               /\ c.files \in SC[c.scn].fileChoices }
               \cup GraphConfigs
  /\ phase = "init"
  /\ ctx = NewContext
  /\ cache = createCache
  /\ ftask = EmptyFn
  /\ itask = EmptyFn
  /\ rootWait = {}
  /\ hist = NoHistory
  /\ run = 1
  /\ prev = NoResult

\* files.map((f) => isAbsolute(f) ? f : resolve(process.cwd(), f))
normalizedFiles ==
  [i \in DOMAIN World.entries |->
     IF isAbsolute(World.entries[i]) THEN World.entries[i]
     ELSE resolveFrom(World.cwd, World.entries[i])]

\* normalizedFiles.map((f) => traceFile(f, 0, ctx, true)): the calls run one
\* after the other, each to its first await
RECURSIVE TraceEntries(_, _)
TraceEntries(st, files) ==
  IF files = << >> THEN st
  ELSE LET r == traceFile(st, Head(files), 0, TRUE, "root")
           st1 == IF r.started
                  THEN [r.st EXCEPT !.rootWait = @ \cup { resolve(Head(files)) }]
                  ELSE r.st
       IN TraceEntries(st1, Tail(files))

\* pythonFileTrace up to `await Promise.all(...)`
Start ==
  /\ phase = "init"
  /\ phase' = "running"
  /\ Commit(TraceEntries(St, normalizedFiles))
  /\ UNCHANGED << cfg, run, prev >>

\* The slot is held: semaphore.run calls readFile, which answers from the
\* cache or starts the read
ReadStart(p) ==
  /\ ftask[p].pc = "acquired"
  /\ IF p \in DOMAIN cache.fileContents
     THEN /\ ftask' = [ftask EXCEPT ![p].pc = "readret"]
          /\ hist' = hist
     ELSE /\ ftask' = [ftask EXCEPT ![p].pc = "reading"]
          /\ hist' = [hist EXCEPT !.reads = AddOne(@, p)]
  /\ UNCHANGED << cfg, phase, ctx, cache, itask, rootWait, run, prev >>

\* The read ends: the content is cached, or the read throws
ReadDone(p) ==
  /\ ftask[p].pc = "reading"
  /\ IF p \in FilesOf(World) /\ p \notin World.unreadable
     THEN /\ cache' = [cache EXCEPT !.fileContents = Put(@, p, World.disk[p])]
          /\ ftask' = [ftask EXCEPT ![p].pc = "readret"]
     ELSE /\ cache' = cache
          /\ ftask' = [ftask EXCEPT ![p].pc = "readret", ![p].ok = FALSE]
  /\ UNCHANGED << cfg, phase, ctx, itask, rootWait, hist, run, prev >>

\* traceFile that leaves the file pending when the read fails
AfterRead_keepPending(p) ==
  /\ ftask[p].pc = "readret"
  /\ LET st1 == release(St) IN
     IF ~ftask[p].ok
     THEN Commit(settle(Warn(st1, ReadWarning(p)), p))
     ELSE Commit([st1 EXCEPT
                    !.hist.parsed = AddOne(@, p),
                    !.ftask[p].pc = IF p \in DOMAIN cache.parsedImports
                                    THEN "gotImports" ELSE "parsing"])
  /\ UNCHANGED << cfg, phase, run, prev >>

\* semaphore.run releases the slot; traceFile goes on after the read: it
\* gives up with a warning, or calls getImports
AfterRead(p) ==
  /\ ftask[p].pc = "readret"
  /\ LET st1 == release(St) IN
     IF ~ftask[p].ok
     THEN Commit(settle([Warn(st1, ReadWarning(p)) EXCEPT
                           !.ctx.pending = @ \ { p }], p))
     ELSE Commit([st1 EXCEPT
                    !.hist.parsed = AddOne(@, p),
                    !.ftask[p].pc = IF p \in DOMAIN cache.parsedImports
                                    THEN "gotImports" ELSE "parsing"])
  /\ UNCHANGED << cfg, phase, run, prev >>

\* getImports that takes a file for one without imports when the structural
\* parser fails
ParseDone_noFallback(p) ==
  /\ ftask[p].pc = "parsing"
  /\ LET failed == p \in World.parserFails
         imports == IF failed THEN NoImports
                    ELSE parseImports(cache.fileContents[p])
     IN /\ cache' = [cache EXCEPT !.parsedImports = Put(@, p, imports)]
        /\ ctx' = IF failed
                  THEN [ctx EXCEPT !.warnings = AddOne(@, RegexWarning(p))]
                  ELSE ctx
  /\ ftask' = [ftask EXCEPT ![p].pc = "gotImports"]
  /\ UNCHANGED << cfg, phase, itask, rootWait, hist, run, prev >>

\* The structural parser answers or fails (exit code, spawn error, timeout,
\* output that is no JSON); on a failure getImports pushes a warning and
\* takes the records of the regex parser; the records are cached
ParseDone(p) ==
  /\ ftask[p].pc = "parsing"
  /\ LET failed == p \in World.parserFails
         imports == IF failed THEN parseImportsRegex(cache.fileContents[p])
                    ELSE parseImports(cache.fileContents[p])
     IN /\ cache' = [cache EXCEPT !.parsedImports = Put(@, p, imports)]
        /\ ctx' = IF failed
                  THEN [ctx EXCEPT !.warnings = AddOne(@, RegexWarning(p))]
                  ELSE ctx
  /\ ftask' = [ftask EXCEPT ![p].pc = "gotImports"]
  /\ UNCHANGED << cfg, phase, itask, rootWait, hist, run, prev >>

\* traceFile starts one closure per import record and awaits them all
Spawn(p) ==
  /\ ftask[p].pc = "gotImports"
  /\ LET imports == cache.parsedImports[p] IN
     /\ itask' = TasksOf(p, imports) @@ itask
     /\ ctx' = [ctx EXCEPT !.warnings = @ (+) DynamicWarnings(p, imports)]
  /\ ftask' = [ftask EXCEPT ![p].pc = "join"]
  /\ UNCHANGED << cfg, phase, cache, rootWait, hist, run, prev >>

\* The resolver answers the task id
Resolve(id) ==
  /\ itask[id].pc = "resolve"
  /\ Commit(IF id[2] = "from" THEN AfterFrom(St, id)
            ELSE AfterModule(St, id, id[2]))
  /\ UNCHANGED << cfg, phase, run, prev >>

\* resolveImportedName answers the task id
ResolveName(id) ==
  /\ itask[id].pc = "resolveName"
  /\ Commit(AfterName(St, id))
  /\ UNCHANGED << cfg, phase, run, prev >>

\* The traceFile call the task id awaited has returned
Resume(id) ==
  /\ itask[id].pc = "resume"
  /\ Commit(AfterTrace(St, id))
  /\ UNCHANGED << cfg, phase, run, prev >>

ChildrenOf(tasks, p) == { id \in DOMAIN tasks : id[1] = p }

\* Promise.all(importPromises) is settled: the file is traced
Join(p) ==
  /\ ftask[p].pc = "join"
  /\ \A id \in ChildrenOf(itask, p) : itask[id].pc = "done"
  /\ Commit(settle([St EXCEPT !.itask = Drop(@, ChildrenOf(itask, p)),
                              !.ctx.pending = @ \ { p },
                              !.ctx.traced = @ \cup { p }], p))
  /\ UNCHANGED << cfg, phase, run, prev >>

\* pythonFileTrace returns without awaiting the entry calls
Return_early ==
  /\ phase = "running"
  /\ phase' = "returned"
  /\ UNCHANGED << cfg, ctx, cache, ftask, itask, rootWait, hist, run, prev >>

\* Promise.all over the entry calls is settled: pythonFileTrace returns
Return ==
  /\ phase = "running"
  /\ rootWait = {}
  /\ phase' = "returned"
  /\ UNCHANGED << cfg, ctx, cache, ftask, itask, rootWait, hist, run, prev >>

Next ==
  \/ Start
  \/ \E p \in DOMAIN ftask : ReadStart(p)
  \/ \E p \in DOMAIN ftask : ReadDone(p)
  \/ \E p \in DOMAIN ftask : AfterRead(p)
  \/ \E p \in DOMAIN ftask : ParseDone(p)
  \/ \E p \in DOMAIN ftask : Spawn(p)
  \/ \E p \in DOMAIN ftask : Join(p)
  \/ \E id \in DOMAIN itask : Resolve(id)
  \/ \E id \in DOMAIN itask : ResolveName(id)
  \/ \E id \in DOMAIN itask : Resume(id)
  \/ Return

Spec == Init /\ [][Next]_vars

\* The calls of Init, and each of them with the option fileIOConcurrency: 0
\* as well (options.fileIOConcurrency ?? 1024 keeps a 0)
InitGate ==
  /\ cfg \in { [c EXCEPT !.fileIOConcurrency = k] :
                 c \in { d \in Configs :
                           /\ d.ignore \in SC[d.scn].ignoreChoices
                           /\ d.analyzeDynamic \in SC[d.scn].dynamicChoices
                           /\ d.files \in SC[d.scn].fileChoices }
                        \cup GraphConfigs,
                 k \in 0..MaxConcurrency }
  /\ phase = "init"
  /\ ctx = NewContext
  /\ cache = createCache
  /\ ftask = EmptyFn
  /\ itask = EmptyFn
  /\ rootWait = {}
  /\ hist = NoHistory
  /\ run = 1
  /\ prev = NoResult

SpecGate == InitGate /\ [][Next]_vars

\* Some continuation is ready to run or some read, parser or resolver call
\* is under way: the guards of the steps of Next, of which every one changes
\* the position of the call that takes it (ENABLED <<Next>>_vars)
Ready ==
  \/ phase = "init"
  \/ \E p \in DOMAIN ftask :
       \/ ftask[p].pc \in { "acquired", "reading", "readret", "parsing",
                            "gotImports" }
       \/ /\ ftask[p].pc = "join"
          /\ \A id \in ChildrenOf(itask, p) : itask[id].pc = "done"
  \/ \E id \in DOMAIN itask :
       itask[id].pc \in { "resolve", "resolveName", "resume" }
  \/ phase = "running" /\ rootWait = {}

\* The scheduler of JavaScript runs every continuation that is ready, and
\* every read, stat and parser call of a finite file system ends: weak
\* fairness of Next, WF_vars(Next), with its enabling condition written out
FairSpec == Spec /\ (<>[]Ready => []<><<Next>>_vars)

\* ------------------------------------------------ a second call of the trace

SecondCall(k, cached) ==
  /\ phase = "returned"
  /\ run = 1
  /\ run' = 2
  /\ prev' = Result(ctx, cached)
  /\ cfg' = [cfg EXCEPT !.fileIOConcurrency = k]
  /\ phase' = "running"
  /\ Commit(TraceEntries(
        [ ctx |-> [NewContext EXCEPT !.semaphore = Semaphore(k)],
          cache |-> IF cached THEN cache ELSE createCache,
          ftask |-> EmptyFn, itask |-> EmptyFn, rootWait |-> {},
          hist |-> NoHistory ],
        normalizedFiles))

\* The caller traces the same entry files again on the unchanged file system,
\* with a cache of its own and any concurrency limit
CallAgain == \E k \in 1..MaxConcurrency : SecondCall(k, FALSE)

\* The caller traces again with the same options and the cache the first
\* call filled
CallCached == SecondCall(cfg.fileIOConcurrency, TRUE)

NextTwice == Next \/ CallAgain \/ CallCached

SpecTwice == Init /\ [][NextTwice]_vars

\* ------------------------------------------ a call with other arguments

\* pythonFileTrace has returned result; the caller calls it again with the
\* options and files of c, on the same file system and with a new cache
Recall(c, result) ==
  /\ phase = "returned"
  /\ phase' = "init"
  /\ cfg' = c
  /\ prev' = result
  /\ run' = run + 1
  /\ ctx' = [NewContext EXCEPT !.semaphore = Semaphore(c.fileIOConcurrency)]
  /\ cache' = createCache
  /\ ftask' = EmptyFn
  /\ itask' = EmptyFn
  /\ rootWait' = {}
  /\ hist' = NoHistory

\* The results of two calls taken together: every file of either, with the
\* parents it has in either
Together(r1, r2) ==
  [ r2 EXCEPT
      !.fileList = r1.fileList \cup r2.fileList,
      !.reasons =
         [f \in r1.fileList \cup r2.fileList |->
            LET first == IF f \in r1.fileList THEN r1.reasons[f].parents ELSE {}
                second == IF f \in r2.fileList THEN r2.reasons[f].parents ELSE {}
                r == IF f \in r1.fileList THEN r1.reasons[f] ELSE r2.reasons[f]
            IN [r EXCEPT !.parents = first \cup second]],
      !.unresolved = r1.unresolved (+) r2.unresolved ]

\* The same call without the ignore patterns
CallUnignored ==
  /\ run = 1
  /\ cfg.ignore # {}
  /\ Recall([cfg EXCEPT !.ignore = {}], Result(ctx, FALSE))

\* The same call with analyzeDynamic on
CallDynamic ==
  /\ run = 1
  /\ ~cfg.analyzeDynamic
  /\ Recall([cfg EXCEPT !.analyzeDynamic = TRUE], Result(ctx, FALSE))

\* After the call for the first entry file, the call for the others
CallRest ==
  /\ run = 1
  /\ cfg.files = "first"
  /\ Recall([cfg EXCEPT !.files = "rest"], Result(ctx, FALSE))

\* After the calls for the two parts, the call for all entry files
CallAll ==
  /\ run = 2
  /\ cfg.files = "rest"
  /\ Recall([cfg EXCEPT !.files = "all"], Together(prev, Result(ctx, FALSE)))

NextOptions == Next \/ CallUnignored \/ CallDynamic \/ CallRest \/ CallAll

SpecOptions == Init /\ [][NextOptions]_vars

\* ------------------------------------------------------------- the claims

Entries == { resolveFrom(World.cwd, World.entries[i]) : i \in DOMAIN World.entries }

Returned == phase = "returned"

DepthExceeded ==
  \E w \in BagToSet(ctx.warnings) : w.kind = "Max depth exceeded"

\* A file the trace can traverse: it is on disk, readable and not ignored
Traversable(f) ==
  f \in FilesOf(World) /\ f \notin World.unreadable /\ ~shouldIgnore(f)

\* The records getImports yields for file f
Extracted(f) ==
  IF f \in World.parserFails THEN parseImportsRegex(World.disk[f])
  ELSE parseImports(World.disk[f])

NamePaths(base, names) ==
  { resolveImportedName(World, base.path, names[k], base.isPackage).path :
      k \in { j \in DOMAIN names : names[j] # "*" } }

FromPaths(imp, f) ==
  LET base == IF imp.level > 0
              THEN resolveRelativeImport(World, imp.module, imp.level, f)
              ELSE IF imp.module # NoModule
                   THEN resolveModule(World, imp.module, f)
                   ELSE Null
  IN IF base = Null THEN {} ELSE { base.path } \cup NamePaths(base, imp.names)

\* The paths the resolver returns for the imports of file f
Targets(f) ==
  LET imports == Extracted(f) IN
  ( { resolveModule(World, imports.imports[i].module, f).path :
        i \in DOMAIN imports.imports }
    \cup UNION { FromPaths(imports.fromImports[i], f) :
                   i \in DOMAIN imports.fromImports }
    \cup ( IF cfg.analyzeDynamic
           THEN { resolveModule(World, imports.dynamicImports[i].module, f).path :
                    i \in { j \in DOMAIN imports.dynamicImports :
                              imports.dynamicImports[j].module # NoModule } }
           ELSE {} ) ) \ { Null.path }

RECURSIVE Close(_)
Close(S) ==
  LET S2 == S \cup UNION { Targets(f) : f \in { g \in S : Traversable(g) } } IN
  IF S2 = S THEN S ELSE Close(S2)

\* C1: once the trace runs (maxDepth >= 0), every entry file's normalised
\* path is in fileList with reason type 'input', whatever imports it.
C1_EntriesAreInputs ==
  (phase # "init" /\ cfg.maxDepth >= 0) =>
     \A e \in Entries : e \in ctx.fileList /\ ctx.reasons[e].type = "input"

\* The trace of entries a and b has returned, and a imports the entry b
C1_Witness ==
  /\ Returned
  /\ cfg.scn = "two"
  /\ ctx.reasons[F("b")].type = "input"
  /\ F("a") \in ctx.reasons[F("b")].parents

\* C2: in every state, a file of fileList that is no input has a parent, and
\* all its parents are in fileList.
C2_ParentsInFileList ==
  \A f \in ctx.fileList :
     ctx.reasons[f].type # "input" =>
        /\ ctx.reasons[f].parents # {}
        /\ ctx.reasons[f].parents \subseteq ctx.fileList

\* A returned trace with a file that two files import
C2_Witness ==
  /\ Returned
  /\ \E f \in ctx.fileList :
        ctx.reasons[f].type # "input" /\ Cardinality(ctx.reasons[f].parents) >= 2

\* C3: at the return of a trace that never exceeded maxDepth, fileList is the
\* closure of the entry files under the resolved imports of traversable files.
C3_FileListIsClosure ==
  (Returned /\ ~DepthExceeded) => ctx.fileList = Close(Entries)

\* A returned trace that followed a from-import into a package and a name of it
C3_Witness ==
  /\ Returned
  /\ ~DepthExceeded
  /\ cfg.scn = "package"
  /\ App \o << "mypkg", Py("module_a") >> \in ctx.fileList

\* C4: under fair scheduling, pythonFileTrace eventually returns.
C4_Terminates == <>Returned

\* A read waits in the queue of the semaphore while every slot is taken
C4_Witness ==
  /\ ctx.semaphore.queue # << >>
  /\ ctx.semaphore.current = cfg.fileIOConcurrency
  /\ ctx.pending # {}

\* C5: when pythonFileTrace has returned nothing is pending, no task runs, no
\* slot is held, every file given to getImports is traced, and the result
\* does not change any more.
C5_SettledAtReturn ==
  /\ [](Returned =>
          /\ ctx.pending = {}
          /\ DOMAIN ftask = {}
          /\ DOMAIN itask = {}
          /\ ctx.semaphore.current = 0
          /\ ctx.semaphore.queue = << >>
          /\ BagToSet(hist.parsed) \subseteq ctx.traced)
  /\ [][Returned => ctx' = ctx]_vars

\* A returned trace in which traceFile was called for a file that was pending
\* in a task of another importer
C5_Witness ==
  /\ Returned
  /\ cfg.scn = "depth"
  /\ F("b") \in hist.reentered

C7_SameFileList ==
  (Returned /\ run = 2) => ctx.fileList = prev.fileList

\* C8: a second trace with the cache of the first returns equal fileList,
\* reasons and unresolved; and after a trace the cache holds every file that
\* was read and every file that was parsed.
C8_CachedRunEqual ==
  /\ (Returned /\ run = 2 /\ prev.cached) =>
        /\ ctx.fileList = prev.fileList
        /\ ctx.reasons = prev.reasons
        /\ ctx.unresolved = prev.unresolved
  /\ Returned =>
        /\ \A p \in BagToSet(hist.reads) :
              Traversable(p) => p \in DOMAIN cache.fileContents
        /\ BagToSet(hist.parsed) \subseteq DOMAIN cache.parsedImports

\* C9: a file of fileList that matches an ignore pattern is flagged ignored,
\* is never read or parsed, and is the parent of no file.
C9_IgnoredNotTraversed ==
  \A f \in ctx.fileList :
     shouldIgnore(f) =>
        /\ ctx.reasons[f].ignored
        /\ CopiesIn(f, hist.reads) = 0
        /\ CopiesIn(f, hist.parsed) = 0
        /\ f \notin DOMAIN cache.fileContents \cup DOMAIN cache.parsedImports
        /\ \A g \in ctx.fileList : f \notin ctx.reasons[g].parents

\* helpers.py is ignored and listed; x.py, which only helpers.py imports, is not
C9_Witness ==
  /\ Returned
  /\ cfg.scn = "simple"
  /\ cfg.ignore = { GlobstarName(Py("helpers")) }
  /\ F("helpers") \in ctx.fileList
  /\ F("x") \notin ctx.fileList

\* C10 as stated: with ignore ['**/helpers.py'] the trace of main.py returns
\* exactly {main.py, utils.py}.
C10_IgnoredImportAbsent ==
  (Returned /\ cfg.scn = "simple" /\ cfg.ignore = { GlobstarName(Py("helpers")) })
     => ctx.fileList = { F("main"), F("utils") }

\* C10 amended: an ignored file that a traced file imports is in fileList,
\* flagged ignored; with ignore ['**/helpers.py'] the trace of main.py returns
\* {main.py, utils.py, helpers.py}, of which helpers.py alone is flagged.
C10_IgnoredImportListed ==
  Returned =>
     /\ \A g \in ctx.traced : \A t \in Targets(g) :
           shouldIgnore(t) => t \in ctx.fileList /\ ctx.reasons[t].ignored
     /\ (cfg.scn = "simple" /\ cfg.ignore = { GlobstarName(Py("helpers")) }) =>
           /\ ctx.fileList = { F("main"), F("utils"), F("helpers") }
           /\ { f \in ctx.fileList : ctx.reasons[f].ignored } = { F("helpers") }

\* The trace of main.py with ignore ['**/helpers.py'] has returned
C10_Witness ==
  /\ Returned
  /\ cfg.scn = "simple"
  /\ cfg.ignore = { GlobstarName(Py("helpers")) }
  /\ F("helpers") \in ctx.traced \cup ctx.fileList
  /\ ctx.reasons[F("helpers")].ignored

\* C11: the fileList a call returns with ignore patterns is a subset of the
\* fileList the same call returns without them (maxDepth finite or not).
C11_IgnoreShrinks ==
  (Returned /\ run = 2 /\ prev.options.ignore # {} /\ cfg.ignore = {}) =>
     prev.fileList \subseteq ctx.fileList

\* A dynamic-import warning or a reason of type 'dynamic' is in the result
DynamicTraces ==
  \/ \E w \in BagToSet(ctx.warnings) :
        w.kind = "Dynamic import with non-static expression"
  \/ \E f \in ctx.fileList : ctx.reasons[f].type = "dynamic"

\* C12: the fileList a call returns with analyzeDynamic = false is a subset
\* of the fileList the same call returns with analyzeDynamic = true, and with
\* analyzeDynamic = false no reason has type 'dynamic' and no dynamic-import
\* warning is recorded.
C12_DynamicOffShrinks ==
  /\ (Returned /\ run = 2 /\ ~prev.options.analyzeDynamic /\ cfg.analyzeDynamic)
        => prev.fileList \subseteq ctx.fileList
  /\ ~cfg.analyzeDynamic => ~DynamicTraces

\* The second half of C12 alone
C12_DynamicOffSilent == ~cfg.analyzeDynamic => ~DynamicTraces

\* C13: the call for all entry files returns the fileList of the calls for
\* the first entry file and for the others taken together, each file with the
\* parents it has in either.
C13_UnionOfEntries ==
  (Returned /\ run = 3 /\ cfg.files = "all") =>
     /\ ctx.fileList = prev.fileList
     /\ \A f \in ctx.fileList \cap prev.fileList :
           ctx.reasons[f].parents = prev.reasons[f].parents

\* C14: with includeStdlib = false no path of fileList lies under the
\* standard-library root, wherever the search roots are.
C14_NothingUnderStdlibRoot ==
  ~World.includeStdlib =>
     \A f \in ctx.fileList : ~IsPrefix(World.stdlibPath, f)

\* The module names of the absolute imports of file f that the trace gives
\* to resolveModule
AbsoluteModules(f) ==
  LET imports == Extracted(f) IN
  { imports.imports[i].module : i \in DOMAIN imports.imports }
    \cup { imports.fromImports[i].module :
             i \in { j \in DOMAIN imports.fromImports :
                       /\ imports.fromImports[j].level = 0
                       /\ imports.fromImports[j].module # NoModule } }
    \cup ( IF cfg.analyzeDynamic
           THEN { imports.dynamicImports[i].module :
                    i \in { j \in DOMAIN imports.dynamicImports :
                              imports.dynamicImports[j].module # NoModule } }
           ELSE {} )

\* The files that only imports of stdlib names lead to: what a probe of the
\* file system finds for the stdlib names the parsed files import
BehindStdlibNames ==
  UNION { { FirstResolved(World, m,
                          << dirname(f) >> \o searchPaths(World)).path :
              m \in { n \in AbsoluteModules(f) : isStdlibModule(World, n) } } :
            f \in DOMAIN cache.parsedImports }
    \ { Null.path }

\* C15: with includeStdlib = false an absolute import of a name of the
\* stdlib set resolves to nothing, whatever is on disk: it adds no file to
\* fileList, no key to unresolved and no warning.
C15_StdlibSuppressed ==
  ~World.includeStdlib =>
     /\ \A f \in DOMAIN cache.parsedImports :
           \A m \in AbsoluteModules(f) :
              isStdlibModule(World, m) => resolveModule(World, m, f) = Null
     /\ \A u \in BagToSet(ctx.unresolved) : ~isStdlibModule(World, u[1])
     /\ cfg.scn = "stdlib" =>
           /\ ctx.fileList \cap BehindStdlibNames = {}
           /\ ctx.fileList \subseteq { F("main") }
           /\ ctx.warnings = EmptyBag
           /\ Returned =>
                 ctx.unresolved = SetToBag({ << << "missing" >>, F("main") >> })

\* main.py, which imports os three ways, is traced although os.py lies next
\* to it
C15_Witness ==
  /\ Returned
  /\ cfg.scn = "stdlib"
  /\ F("main") \in ctx.traced
  /\ F("os") \in BehindStdlibNames
  /\ Cardinality({ m \in AbsoluteModules(F("main")) :
                     isStdlibModule(World, m) }) = 2

\* The imports of file f the trace gives to the resolver: the name
\* addUnresolved would record and what the resolver answers
Requests(f) ==
  LET imports == Extracted(f) IN
  { [name |-> m, resolved |-> resolveModule(World, m, f), absolute |-> TRUE] :
      m \in AbsoluteModules(f) }
    \cup { [ name |-> DottedName(imports.fromImports[i].level,
                                  imports.fromImports[i].module),
             resolved |-> resolveRelativeImport(World,
                             imports.fromImports[i].module,
                             imports.fromImports[i].level, f),
             absolute |-> FALSE ] :
             i \in { j \in DOMAIN imports.fromImports :
                       imports.fromImports[j].level > 0 } }

\* includeStdlib is false and the top-level name is in the stdlib set
Suppressed(r) ==
  r.absolute /\ ~World.includeStdlib /\ isStdlibModule(World, r.name)

\* C16: at the return, every import of a traced file that resolves to
\* nothing and is not suppressed is in unresolved under its module name with
\* the importing file, stdlib names with includeStdlib = true included.
C16_UnresolvedRecorded ==
  Returned =>
     \A f \in ctx.traced : \A r \in Requests(f) :
        (r.resolved = Null /\ ~Suppressed(r)) =>
           BagIn(<< r.name, f >>, ctx.unresolved)

\* C16 for the names outside the stdlib set
C16_UnresolvedRecordedNonStdlib ==
  Returned =>
     \A f \in ctx.traced : \A r \in Requests(f) :
        (r.resolved = Null /\ ~(r.absolute /\ isStdlibModule(World, r.name))) =>
           BagIn(<< r.name, f >>, ctx.unresolved)

\* The files a "Failed to read" warning names
ReadFailures ==
  { w.file : w \in { v \in BagToSet(ctx.warnings) : v.kind = "Failed to read" } }

\* The slots of the semaphore that are taken are those of the calls between
\* acquire and release
SlotsHeld ==
  Cardinality({ p \in DOMAIN ftask :
                  ftask[p].pc \in { "acquired", "reading", "readret" } })

\* C17: the failed read of a non-entry file leaves a warning that names the
\* file; the file stays in fileList with its reason, is never parsed and is
\* the parent of no file; the step that records the failure takes the file
\* out of pending and gives the slot back; the other files within maxDepth
\* are traced to the end.
C17_ReadFailureRecovered ==
  /\ [](\A f \in ReadFailures \ Entries :
          /\ f \in ctx.fileList
          /\ ctx.reasons[f].parents # {}
          /\ f \notin ctx.traced
          /\ f \notin DOMAIN cache.parsedImports
          /\ CopiesIn(f, hist.parsed) = 0
          /\ \A g \in ctx.fileList : f \notin ctx.reasons[g].parents)
  /\ [](ctx.semaphore.current = SlotsHeld)
  /\ [][\A p \in DOMAIN ftask :
          (ftask[p].pc = "readret" /\ ~ftask[p].ok /\ p \notin DOMAIN ftask') =>
             /\ p \in ctx.pending
             /\ p \notin ctx'.pending
             /\ ctx'.warnings = AddOne(ctx.warnings, ReadWarning(p))]_vars
  /\ []((Returned /\ cfg.scn = "bad" /\ cfg.maxDepth >= 1) =>
          /\ ctx.pending = {}
          /\ ctx.fileList = { F("main"), F("utils"), F("ghost") }
          /\ { F("main"), F("utils") } \subseteq ctx.traced)

\* ghost.py, which main.py and utils.py import, could not be read, and the
\* trace has returned
C17_Witness ==
  /\ Returned
  /\ cfg.scn = "bad"
  /\ cfg.maxDepth >= 1
  /\ F("ghost") \in ReadFailures
  /\ ctx.reasons[F("ghost")].parents = { F("main"), F("utils") }
  /\ F("utils") \in ctx.traced

\* An entry file is missing or cannot be read
EntryUnreadable ==
  \E e \in Entries : e \notin FilesOf(World) \/ e \in World.unreadable

\* C18: when an entry file is missing or unreadable pythonFileTrace returns
\* no result.
C18_EntryFailureRejects ==
  (EntryUnreadable /\ \A e \in Entries : ~shouldIgnore(e)) => ~Returned

\* The shortest number of imports from an entry file to the files of S,
\* capped at k: the files within k imports of S through traversable files
RECURSIVE Within(_, _)
Within(S, k) ==
  IF k = 0 THEN S
  ELSE LET S2 == S \cup UNION { Targets(f) : f \in { g \in S : Traversable(g) } }
       IN IF S2 = S THEN S ELSE Within(S2, k - 1)

\* The files with a 'Max depth exceeded' warning
DepthWarned ==
  { w.file :
      w \in { v \in BagToSet(ctx.warnings) : v.kind = "Max depth exceeded" } }

\* A file of the result that traceFile was only called for at depths above
\* maxDepth: it is farther than maxDepth imports from the entry files, or it
\* was warned about and no call for it got past the depth check
OnlyBeyondMaxDepth(f) ==
  \/ f \notin Within(Entries, cfg.maxDepth)
  \/ /\ f \in DepthWarned
     /\ f \notin ctx.traced \cup ReadFailures
     /\ ~shouldIgnore(f)

\* C19: at the return, a file of fileList reached only at depths above
\* maxDepth has a parent, all its parents are traced files that import it, a
\* 'Max depth exceeded' warning names it, it was never read or parsed, and it
\* is the parent of no file.
C19_BeyondMaxDepth ==
  Returned =>
     \A f \in ctx.fileList \cap FilesOf(World) :
        OnlyBeyondMaxDepth(f) =>
           /\ ctx.reasons[f].parents # {}
           /\ \A p \in ctx.reasons[f].parents :
                 p \in ctx.traced /\ f \in Targets(p)
           /\ f \in DepthWarned
           /\ CopiesIn(f, hist.reads) = 0
           /\ CopiesIn(f, hist.parsed) = 0
           /\ f \notin DOMAIN cache.fileContents \cup DOMAIN cache.parsedImports
           /\ \A g \in ctx.fileList : f \notin ctx.reasons[g].parents

\* With maxDepth 2 the trace of e.py has returned; b.py was first reached
\* through a.py, so that c.py was cut at depth 3
C19_Witness ==
  /\ Returned
  /\ cfg.scn = "depth"
  /\ cfg.maxDepth = 2
  /\ F("c") \in ctx.fileList
  /\ F("c") \in DepthWarned
  /\ F("c") \notin ctx.traced
  /\ F("d") \notin ctx.fileList

\* The texts of the dynamic-import records of file f whose argument is no
\* literal
Expressions(f) ==
  LET dyn == Extracted(f).dynamicImports IN
  { dyn[i].expression :
      i \in { j \in DOMAIN dyn :
                dyn[j].module = NoModule /\ dyn[j].expression # None } }

\* The calls of traceFile that have started their import closures
Spawned ==
  ctx.traced \cup { p \in DOMAIN ftask : ftask[p].pc = "join" }

\* C20: with analyzeDynamic on, every dynamic import of a parsed file whose
\* argument is no literal leaves a warning with the text of the expression;
\* no closure (and so no call of the resolver) exists for it, and it adds no
\* file to fileList and nothing to unresolved.
C20_NonLiteralDynamicWarned ==
  cfg.analyzeDynamic =>
     /\ \A f \in Spawned : \A e \in Expressions(f) :
           BagIn(DynamicWarning(f, e), ctx.warnings)
     /\ \A id \in DOMAIN itask :
           id[2] = "dynamic" => Record(id).module # NoModule
     /\ cfg.scn = "dynamic" =>
           /\ ctx.fileList \subseteq { F("main"), F("plugin"), F("x") }
           /\ ctx.unresolved = EmptyBag
           /\ Returned =>
                 CopiesIn(DynamicWarning(F("main"), "name_var"), ctx.warnings) = 1

\* main.py, with one literal and one non-literal dynamic import, is traced
C20_Witness ==
  /\ Returned
  /\ cfg.scn = "dynamic"
  /\ cfg.analyzeDynamic
  /\ cfg.maxDepth >= 1
  /\ F("main") \in ctx.traced
  /\ Expressions(F("main")) = { "name_var" }
  /\ ctx.reasons[F("plugin")].type = "dynamic"

\* The files a "Using regex parser" warning names
RegexFallbacks ==
  { w.file : w \in { v \in BagToSet(ctx.warnings) : v.kind = "Using regex parser" } }

\* C21: when the structural parser fails for a file, a warning names the
\* file, the records cached for it are those of the regex parser, and the
\* trace goes on: with the parser failing for main.py and plugin.py every
\* import the regex parser finds is traversed, and the trace returns with
\* one warning per file (and none for the dynamic import the regex parser
\* cannot see).
C21_ParserFailureFallsBack ==
  /\ \A p \in DOMAIN cache.parsedImports \cap World.parserFails :
        /\ cache.parsedImports[p] = parseImportsRegex(World.disk[p])
        /\ CopiesIn(RegexWarning(p), ctx.warnings) = 1
  /\ RegexFallbacks \subseteq World.parserFails
  /\ (Returned /\ cfg.scn = "fallback" /\ cfg.maxDepth >= 2) =>
        /\ ctx.fileList = { F("main"), F("utils"), F("plugin"), F("x") }
        /\ ctx.traced = ctx.fileList
        /\ ctx.reasons[F("plugin")].type = "dynamic"
        /\ ctx.reasons[F("x")].parents = { F("plugin") }
        /\ ctx.warnings = SetToBag({ RegexWarning(F("main")),
                                     RegexWarning(F("plugin")) })

\* The parser failed for main.py and for plugin.py, and the trace returned
C21_Witness ==
  /\ Returned
  /\ cfg.scn = "fallback"
  /\ cfg.maxDepth >= 2
  /\ RegexFallbacks = { F("main"), F("plugin") }
  /\ F("x") \in ctx.traced

\* The calls of traceFile that wait in the queue of the semaphore
Queued == { p \in DOMAIN ftask : ftask[p].pc = "queued" }

\* C22: at most fileIOConcurrency reads are in progress; the count of the
\* semaphore is the number of slots held, between 0 and its maximum; calls
\* wait only while every slot is taken; and a step wakes at most one waiting
\* call, the first of the queue, which takes over the slot that is released.
C22_SemaphoreBounds ==
  /\ [](cfg.fileIOConcurrency >= 1 =>
          /\ SlotsHeld <= cfg.fileIOConcurrency
          /\ ctx.semaphore.current = SlotsHeld
          /\ ctx.semaphore.current >= 0
          /\ ctx.semaphore.current <= ctx.semaphore.max
          /\ ctx.semaphore.max = cfg.fileIOConcurrency
          /\ { ctx.semaphore.queue[i] : i \in DOMAIN ctx.semaphore.queue } = Queued
          /\ Len(ctx.semaphore.queue) = Cardinality(Queued)
          /\ ctx.semaphore.queue # << >> =>
                ctx.semaphore.current = ctx.semaphore.max)
  /\ [][LET woken == { p \in Queued : p \in DOMAIN ftask' /\ ftask'[p].pc # "queued" }
        IN /\ Cardinality(woken) <= 1
           /\ woken # {} =>
                 /\ woken = { Head(ctx.semaphore.queue) }
                 /\ ftask'[Head(ctx.semaphore.queue)].pc = "acquired"
                 /\ ctx'.semaphore.queue = Tail(ctx.semaphore.queue)
                 /\ ctx'.semaphore.current = ctx.semaphore.current
                 /\ \E p \in DOMAIN ftask : ftask[p].pc = "readret"
           /\ woken = {} => IsPrefix(ctx.semaphore.queue, ctx'.semaphore.queue)
           /\ Queued \ woken \subseteq DOMAIN ftask']_vars

\* With one slot and the entry files a.py, b.py and c.py: a.py is traced,
\* b.py, first in the queue, holds the slot, and c.py still waits
C22_Witness ==
  /\ cfg.scn = "fan"
  /\ cfg.fileIOConcurrency = 1
  /\ F("a") \in ctx.traced
  /\ F("b") \in DOMAIN ftask
  /\ ftask[F("b")].pc \in { "acquired", "reading", "readret" }
  /\ ctx.semaphore.queue = << F("c") >>

\* The paths of fileList that are namespace packages: directories without an
\* initializer file
NamespaceListed == { f \in ctx.fileList : isNamespacePackage(World, f) }

\* C23: a namespace package in fileList has the reason type 'namespace',
\* whatever the variant of the import that resolved to it.
C23_NamespaceReason ==
  \A f \in NamespaceListed : ctx.reasons[f].type = "namespace"

\* C24: a namespace package of fileList is never pending or traced, no
\* traceFile call runs for it, it is never read or parsed, it is the parent
\* of no file, and a listed file inside it is an entry file or the target of
\* an import of a file whose imports have been processed.  In the case of
\* main.py that imports ns, ns.x and (from pkg) the namespace sub: y.py of ns
\* and z.py of sub are not listed.
C24_NamespaceNotTraversed ==
  /\ \A d \in NamespaceListed :
        /\ d \notin ctx.pending \cup ctx.traced
        /\ d \notin DOMAIN ftask
        /\ CopiesIn(d, hist.reads) = 0
        /\ CopiesIn(d, hist.parsed) = 0
        /\ d \notin DOMAIN cache.fileContents \cup DOMAIN cache.parsedImports
        /\ \A g \in ctx.fileList : d \notin ctx.reasons[g].parents
        /\ \A f \in ctx.fileList :
              (IsPrefix(d, f) /\ f # d) =>
                 \/ f \in Entries
                 \/ \E g \in Spawned : f \in Targets(g)
  /\ (Returned /\ cfg.scn = "nsdeep" /\ cfg.maxDepth >= 1) =>
        /\ ctx.fileList = { F("main"), App \o << "ns" >>,
                            App \o << "ns", Py("x") >>,
                            App \o << "pkg", InitPy >>,
                            App \o << "pkg", "sub" >> }
        /\ ctx.warnings = EmptyBag
        /\ ctx.traced = ctx.fileList \ NamespaceListed

\* The trace of main.py has returned with the namespace packages ns and
\* pkg/sub listed, and x.py inside ns listed because main.py imports ns.x
C24_Witness ==
  /\ Returned
  /\ cfg.scn = "nsdeep"
  /\ NamespaceListed = { App \o << "ns" >>, App \o << "pkg", "sub" >> }
  /\ App \o << "ns", Py("x") >> \in ctx.traced
  /\ App \o << "ns", Py("y") >> \notin ctx.fileList

\* The package directory of a resolved package: the directory that holds the
\* initializer file, or the namespace package itself
PackageDir(base) ==
  IF base.isNamespacePackage THEN base.path ELSE dirname(base.path)

\* The submodule, subpackage or namespace package that name n is in the
\* directory D, if any
Child(D, n) ==
  IF IsFile(World, join(D, Py(n))) THEN join(D, Py(n))
  ELSE IF IsFile(World, join(join(D, n), InitPy)) THEN join(join(D, n), InitPy)
  ELSE IF isNamespacePackage(World, join(D, n)) THEN join(D, n)
  ELSE Null.path

\* The base a from-import of file f resolves to
BaseOf(imp, f) ==
  IF imp.level > 0 THEN resolveRelativeImport(World, imp.module, imp.level, f)
  ELSE IF imp.module # NoModule THEN resolveModule(World, imp.module, f)
  ELSE Null

\* The from-imports of file f whose base is a package, each with the
\* directory of the package
PackageFroms(f) ==
  LET froms == Extracted(f).fromImports IN
  { [imp |-> froms[i], dir |-> PackageDir(BaseOf(froms[i], f)),
     namespace |-> BaseOf(froms[i], f).isNamespacePackage] :
      i \in { j \in DOMAIN froms : BaseOf(froms[j], f).isPackage } }

\* Every imported name that is a child of the package directory is listed
\* with the importing file as parent
NamesPromoted(f, pf) ==
  \A k \in DOMAIN pf.imp.names :
     LET c == Child(pf.dir, pf.imp.names[k]) IN
     (pf.imp.names[k] # "*" /\ c # Null.path) =>
        /\ c \in ctx.fileList
        /\ f \in ctx.reasons[c].parents

\* C25: at the return, every non-wildcard name of a from-import of a traced
\* file whose base is a package (regular or namespace) is listed, with the
\* importing file as parent, when it is a submodule, subpackage or namespace
\* package in the package directory; a name that is none of these and the
\* other files of the directory are not listed: the trace of main.py with
\* `from mypkg import module_a, attr` lists module_a.py with type 'from' and
\* not module_b.py.
C25_FromNamePromotion ==
  Returned =>
     /\ \A f \in ctx.traced : \A pf \in PackageFroms(f) : NamesPromoted(f, pf)
     /\ (cfg.scn = "package" /\ cfg.maxDepth >= 1) =>
           /\ ctx.fileList = { F("main"), App \o << "mypkg", InitPy >>,
                               App \o << "mypkg", Py("module_a") >> }
           /\ ctx.reasons[App \o << "mypkg", Py("module_a") >>].type = "from"

\* C25 for regular packages alone
C25_FromNamePromotionRegular ==
  Returned =>
     \A f \in ctx.traced : \A pf \in PackageFroms(f) :
        ~pf.namespace => NamesPromoted(f, pf)

\* The relative imports of file f, each with the directory derived from f
\* and its level
RelativeFroms(f) ==
  LET froms == Extracted(f).fromImports IN
  { [imp |-> froms[i], dir |-> Climb(dirname(f), froms[i].level - 1)] :
      i \in { j \in DOMAIN froms : froms[j].level >= 1 } }

\* Some root of the search order (the importer's directory, base, the extra
\* roots, the site roots) has the module
InSomeRoot(module, f) ==
  FirstResolved(World, module, << dirname(f) >> \o searchPaths(World)) # Null

\* C26: at the return, a relative import of a traced file whose module is not
\* in the directory derived from the file and the level is in unresolved
\* under its dotted name, also when another root has a module of that name;
\* and the files listed for relative imports lie under the derived directory.
C26_RelativeOnlyDerivedDir ==
  Returned =>
     /\ \A f \in ctx.traced : \A rf \in RelativeFroms(f) :
           IF rf.imp.module # NoModule
              /\ resolveInPath(World, rf.imp.module, rf.dir) = Null
           THEN BagIn(<< DottedName(rf.imp.level, rf.imp.module), f >>,
                      ctx.unresolved)
           ELSE rf.imp.module # NoModule =>
                   /\ resolveInPath(World, rf.imp.module, rf.dir).path
                         \in ctx.fileList
                   /\ ~BagIn(<< DottedName(rf.imp.level, rf.imp.module), f >>,
                             ctx.unresolved)
     /\ \A g \in ctx.fileList :
           ctx.reasons[g].type = "relative" =>
              \E f \in ctx.reasons[g].parents : \E rf \in RelativeFroms(f) :
                 IsPrefix(rf.dir, g)
     /\ cfg.scn = "relroots" =>
           /\ ctx.fileList = { App \o << "pkg", "sub", Py("a") >>,
                               App \o << "pkg", Py("utils") >> }
           /\ ctx.unresolved =
                 SetToBag({ << DottedName(1, << "utils" >>),
                               App \o << "pkg", "sub", Py("a") >> >>,
                            << DottedName(2, << "helpers" >>),
                               App \o << "pkg", "sub", Py("a") >> >>,
                            << DottedName(1, << "requests" >>),
                               App \o << "pkg", "sub", Py("a") >> >> })

\* a.py of /app/pkg/sub is traced: its `from .utils import f` is unresolved
\* although /app/utils.py and /extra/utils.py exist, and `from ..utils import
\* g` is resolved in /app/pkg
C26_Witness ==
  /\ Returned
  /\ cfg.scn = "relroots"
  /\ App \o << "pkg", "sub", Py("a") >> \in ctx.traced
  /\ InSomeRoot(<< "utils" >>, App \o << "pkg", "sub", Py("a") >>)
  /\ BagIn(<< DottedName(1, << "utils" >>), App \o << "pkg", "sub", Py("a") >> >>,
           ctx.unresolved)
  /\ ctx.reasons[App \o << "pkg", Py("utils") >>].type = "relative"

\* C27: at the return, for a relative import with an empty module name in a
\* traced file: when the derived directory has an initializer file that file
\* is listed, when it has none and is a namespace package the directory
\* itself is listed; in both cases every imported name that is a child of
\* the directory is listed with the importing file as parent.
C27_EmptyRelativeModule ==
  Returned =>
     \A f \in ctx.traced : \A rf \in RelativeFroms(f) :
        rf.imp.module = NoModule =>
           LET initPath == join(rf.dir, InitPy)
               pf == [imp |-> rf.imp, dir |-> rf.dir]
           IN /\ IsFile(World, initPath) =>
                    /\ initPath \in ctx.fileList
                    /\ f \in ctx.reasons[initPath].parents
                    /\ NamesPromoted(f, pf)
              /\ (~IsFile(World, initPath) /\ isNamespacePackage(World, rf.dir)) =>
                    /\ rf.dir \in ctx.fileList
                    /\ f \in ctx.reasons[rf.dir].parents
                    /\ NamesPromoted(f, pf)

\* C27 for a derived directory with an initializer file
C27_EmptyRelativeModuleRegular ==
  Returned =>
     \A f \in ctx.traced : \A rf \in RelativeFroms(f) :
        (rf.imp.module = NoModule /\ IsFile(World, join(rf.dir, InitPy))) =>
           /\ join(rf.dir, InitPy) \in ctx.fileList
           /\ f \in ctx.reasons[join(rf.dir, InitPy)].parents
           /\ NamesPromoted(f, [imp |-> rf.imp, dir |-> rf.dir])

\* C28 as stated: in the returned result every entry file has an empty
\* parents set, also when a traversed file imports it.
C28_EntryParentsEmpty ==
  Returned => \A e \in Entries : ctx.reasons[e].parents = {}

\* C28 amended: an entry file is recorded with type 'input' and no parent
\* before any import is processed; from then on its parents are files whose
\* imports resolve to it, and in the returned result they are exactly the
\* traced files that import it (none when no traced file does).
C28_EntryParentsAreImporters ==
  (phase # "init" /\ cfg.maxDepth >= 0) =>
     \A e \in Entries :
        /\ e \in ctx.fileList
        /\ ctx.reasons[e].type = "input"
        /\ ctx.reasons[e].parents \subseteq { g \in Spawned : e \in Targets(g) }
        /\ Returned =>
              ctx.reasons[e].parents = { g \in ctx.traced : e \in Targets(g) }

\* The trace of entry a.py has returned; b.py, which a.py imports, imports
\* a.py and is its parent
C28_Witness ==
  /\ Returned
  /\ cfg.scn = "cycle"
  /\ F("a") \in Entries
  /\ F("b") \in ctx.traced
  /\ ctx.reasons[F("a")].parents = { F("b") }

\* The files the run_path records of file f name: the literal path, taken
\* from the directory of f
RunPaths(f) ==
  LET dyn == Extracted(f).dynamicImports IN
  { resolveFrom(dirname(f), dyn[i].path) :
      i \in { j \in DOMAIN dyn :
                dyn[j].module = NoModule /\ dyn[j].path # NoPath } }

\* C29: with analyzeDynamic on, at the return, the file a run_path record of
\* a traced file names is in fileList with reason type 'dynamic' and the
\* calling file as parent.
C29_RunPathTraced ==
  (Returned /\ cfg.analyzeDynamic) =>
     \A f \in ctx.traced : \A g \in RunPaths(f) :
        /\ g \in ctx.fileList
        /\ ctx.reasons[g].type = "dynamic"
        /\ f \in ctx.reasons[g].parents

\* The roots resolveModule tries for an import of file f, in order
RootsFor(f) == << dirname(f) >> \o searchPaths(World)

\* The root in which resolveModule finds module m for file f
RECURSIVE FirstRoot(_, _)
FirstRoot(m, roots) ==
  IF roots = << >> THEN << >>
  ELSE IF resolveInPath(World, m, Head(roots)) # Null THEN Head(roots)
       ELSE FirstRoot(m, Tail(roots))

\* The initializer files of the packages a dotted module m passes through
\* below root: root/m1/__init__.py, root/m1/m2/__init__.py, ...
ChainInits(m, root) ==
  { (root \o SubSeq(m, 1, k)) \o << InitPy >> : k \in 1..(Len(m) - 1) }

\* C30: at the return, for a dotted absolute import of a traced file that
\* resolves in a root where every package it passes through is a regular
\* package, the initializer files of those packages are in fileList, as is
\* the file the import resolves to.
C30_FullChainTraced ==
  Returned =>
     \A f \in ctx.traced : \A m \in AbsoluteModules(f) :
        LET resolved == resolveModule(World, m, f)
            inits == ChainInits(m, FirstRoot(m, RootsFor(f)))
        IN (resolved # Null /\ inits \subseteq FilesOf(World)) =>
              /\ resolved.path \in ctx.fileList
              /\ inits \subseteq ctx.fileList

\* The number of leading dots of a module name as split at the dots
RECURSIVE LeadingDots(_)
LeadingDots(m) ==
  IF m = << >> \/ Head(m) # "" THEN 0 ELSE 1 + LeadingDots(Tail(m))

\* The absolute name of the relative name m in package pkg: one dot is pkg
\* itself, every further dot one package up
Anchored(m, pkg) ==
  LET dots == LeadingDots(m) IN
  SubSeq(pkg, 1, Len(pkg) - (dots - 1)) \o SubSeq(m, dots + 1, Len(m))

\* The dynamic imports of file f with a dotted literal name and a package
RelativeDynamics(f) ==
  LET dyn == Extracted(f).dynamicImports IN
  { dyn[i] : i \in { j \in DOMAIN dyn :
                       /\ LeadingDots(dyn[j].module) >= 1
                       /\ dyn[j].package # << >> } }

\* C31: at the return (analyzeDynamic on), a dynamic import of a traced file
\* with a dotted literal name and a package argument has added the module of
\* that name inside the package, and the top-level module of the undotted
\* name is listed only if the file imports it otherwise.
C31_DynamicRelativeToPackage ==
  (Returned /\ cfg.analyzeDynamic) =>
     \A f \in ctx.traced : \A rec \in RelativeDynamics(f) :
        LET inPackage == resolveModule(World, Anchored(rec.module, rec.package), f)
            topLevel ==
              resolveModule(World,
                 SubSeq(rec.module, LeadingDots(rec.module) + 1, Len(rec.module)),
                 f)
        IN /\ inPackage # Null =>
                 /\ inPackage.path \in ctx.fileList
                 /\ f \in ctx.reasons[inPackage.path].parents
           /\ (topLevel # Null /\ topLevel.path \in ctx.fileList) =>
                 \/ f \notin ctx.reasons[topLevel.path].parents
                 \/ \E m \in AbsoluteModules(f) :
                       /\ LeadingDots(m) = 0
                       /\ resolveModule(World, m, f) = topLevel

\* The paths the resolver returns for the literal dynamic imports of file f
DynamicTargets(f) ==
  LET dyn == Extracted(f).dynamicImports IN
  { resolveModule(World, dyn[i].module, f).path :
      i \in { j \in DOMAIN dyn : dyn[j].module # NoModule } } \ { Null.path }

\* C32: in every step of a trace fileList only grows, and a reason that
\* exists keeps its type, moduleName and ignored flag while its parents only
\* grow.
C32_ReasonsOnlyGainParents ==
  [][ /\ ctx.fileList \subseteq ctx'.fileList
      /\ \A f \in ctx.fileList :
            /\ ctx'.reasons[f].type = ctx.reasons[f].type
            /\ ctx'.reasons[f].moduleName = ctx.reasons[f].moduleName
            /\ ctx'.reasons[f].ignored = ctx.reasons[f].ignored
            /\ ctx.reasons[f].parents \subseteq ctx'.reasons[f].parents ]_vars

\* A traced file imports f dynamically and is a parent of f, while f keeps
\* the type of the static import that listed it first
C32_Witness ==
  /\ Returned
  /\ cfg.analyzeDynamic
  /\ \E g \in ctx.traced : \E f \in DynamicTargets(g) :
        /\ f \in ctx.fileList
        /\ ctx.reasons[f].type \in { "import", "from" }
        /\ g \in ctx.reasons[f].parents

\* C33: a second trace of the same entry files with the same options and a
\* cache of its own ends, under every interleaving, with the reasons of the
\* first: the same type, moduleName and parents for each file.
C33_SameReasons ==
  (Returned /\ run = 2 /\ ~prev.cached /\ prev.options = cfg) =>
     ctx.reasons = prev.reasons

\* C34: at the return every value of unresolved is a set: an importing file
\* is at most once among the files of an unresolved module.
C34_UnresolvedIsSet ==
  Returned =>
     \A u \in BagToSet(ctx.unresolved) : CopiesIn(u, ctx.unresolved) <= 1

\* C35: the skip of a file that is pending or traced comes before the depth
\* check: a step that records a 'Max depth exceeded' warning for a file
\* records it for a file that is neither pending nor traced.
C35_SkipBeforeDepthCheck ==
  [][ \A p \in ctx'.fileList :
        CopiesIn(MaxDepthWarning(p), ctx'.warnings)
           > CopiesIn(MaxDepthWarning(p), ctx.warnings)
        => p \notin ctx.pending \cup ctx.traced ]_vars

\* The files whose structural-parser subprocess is running
Parsing == { p \in DOMAIN ftask : ftask[p].pc = "parsing" }

\* C36: in every reachable state at most fileIOConcurrency parser
\* subprocesses run at the same time.
C36_ParserCallsBounded == Cardinality(Parsing) <= cfg.fileIOConcurrency

\* The roots of an absolute import of file f, in the order of the search
RootOrder(f) ==
  << dirname(f), World.base >> \o World.modulePaths \o World.sitePackages
    \o (IF World.includeStdlib THEN << World.stdlibPath >> ELSE << >>)

\* What the walk of the components of m finds in the first root of f in
\* which it finds anything
FirstSuccess(m, f) ==
  LET roots == RootOrder(f)
      ok == { i \in DOMAIN roots : resolveInPath(World, m, roots[i]) # Null }
  IN IF ok = {} THEN Null
     ELSE resolveInPath(World, m, roots[CHOOSE i \in ok : \A j \in ok : i <= j])

\* C37 as stated: for every absolute module name a parsed file imports,
\* resolveModule returns what the first root in which the walk of the
\* components succeeds gives, and null when no root does.
C37_FirstRootWins ==
  \A f \in DOMAIN cache.parsedImports : \A m \in AbsoluteModules(f) :
     resolveModule(World, m, f) = FirstSuccess(m, f)

\* C37: for every absolute module name a parsed file imports, resolveModule
\* returns null when includeStdlib is false and the name is one of the
\* stdlib set, and otherwise what the first root in which the walk succeeds
\* gives (null when none does); the trace lists the file of that root and no
\* file of a later root.
C37_FirstRootWinsUnlessStdlib ==
  /\ \A f \in DOMAIN cache.parsedImports : \A m \in AbsoluteModules(f) :
        resolveModule(World, m, f) =
           IF ~World.includeStdlib /\ isStdlibModule(World, m) THEN Null
           ELSE FirstSuccess(m, f)
  /\ (Returned /\ cfg.scn = "shadow" /\ cfg.maxDepth = DefaultMaxDepth) =>
        /\ ctx.fileList =
              { App \o << "sub", Py("main") >>, App \o << "sub", Py("utils") >>,
                F("helpers"), << "/", "extra", Py("x") >>,
                << "/", "lib", "site-packages", Py("requests") >>,
                << "/", "lib", Py("os") >>, App \o << "sub", "d" >> }
        /\ BagToSet(ctx.unresolved) =
              { << << "ghost" >>, << "/", "lib", Py("os") >> >> }

\* The number of roots of file f in which the walk for module m succeeds
SuccessCount(m, f) ==
  Cardinality({ i \in DOMAIN RootOrder(f) :
                  resolveInPath(World, m, RootOrder(f)[i]) # Null })

\* The trace has returned with four traced files that each import a module
\* found in two roots or more, and one that imports a module found in none
C37_Witness ==
  /\ Returned
  /\ cfg.scn = "shadow"
  /\ Cardinality({ f \in ctx.traced :
        \E m \in AbsoluteModules(f) : SuccessCount(m, f) >= 2 }) >= 4
  /\ \E f \in ctx.traced : \E m \in AbsoluteModules(f) : SuccessCount(m, f) = 0

\* C38: in one trace the imports of a file are enumerated at most once: no
\* file is pending and traced at once, every traceFile call in progress is
\* that of a pending file and the only one for it, no file is given to
\* getImports twice, and a traced file stays traced and is neither read nor
\* parsed again.
C38_EnumeratedOnce ==
  /\ [](/\ ctx.pending \cap ctx.traced = {}
        /\ DOMAIN ftask \subseteq ctx.pending
        /\ \A p \in BagToSet(hist.parsed) : CopiesIn(p, hist.parsed) = 1)
  /\ [][\A p \in ctx.traced :
          /\ p \in ctx'.traced
          /\ p \notin ctx'.pending
          /\ CopiesIn(p, hist'.reads) = CopiesIn(p, hist.reads)
          /\ CopiesIn(p, hist'.parsed) = CopiesIn(p, hist.parsed)]_vars

\* A file that two traced files import has been parsed once, at a depth
\* within maxDepth from both
C38_Witness ==
  /\ Returned
  /\ cfg.maxDepth = DefaultMaxDepth
  /\ \E f \in ctx.traced :
        /\ Cardinality({ g \in ctx.traced : f \in Targets(g) }) >= 2
        /\ CopiesIn(f, hist.parsed) = 1

\* The entry files that match no ignore pattern
OpenEntries == { e \in Entries : ~shouldIgnore(e) }

\* C39: with fileIOConcurrency = 0 the semaphore keeps the limit 0 and
\* grants no slot: once the trace runs, the calls in progress are those of
\* the entry files that are not ignored, each of them queued; nothing is
\* read; and with one such entry file the trace never returns.
C39_ZeroNeverGrants ==
  cfg.fileIOConcurrency = 0 =>
     /\ ctx.semaphore.max = 0
     /\ ctx.semaphore.current = 0
     /\ hist.reads = EmptyBag
     /\ phase # "init" =>
           /\ DOMAIN ftask = OpenEntries
           /\ \A p \in DOMAIN ftask : ftask[p].pc = "queued"
           /\ { ctx.semaphore.queue[i] : i \in DOMAIN ctx.semaphore.queue }
                 = OpenEntries
           /\ rootWait = OpenEntries
     /\ OpenEntries # {} => ~Returned

\* The trace runs with the limit 0 and two calls in the queue
C39_Witness ==
  /\ cfg.fileIOConcurrency = 0
  /\ phase = "running"
  /\ Len(ctx.semaphore.queue) >= 2

====
